---- MODULE Spec2Model ----
(***************************************************************************)
(* Dust collector control plane: event bus, gate controllers with relay    *)
(* deadtime and timed drive, collector SSR controller, AQM policy and the  *)
(* supervising task group.  All tasks run on one cooperative asyncio loop: *)
(* an action is the code a task executes between two suspension points.    *)
(* A byte of a PCF8574 expander is represented by the set of its bits that *)
(* are driven HIGH.                                                        *)
(***************************************************************************)
EXTENDS Integers, Sequences, FiniteSets, TLC

VARIABLES
    subs,         \* EventBus._subs: subscribers in registration order
    queue,        \* subscriber -> content of its asyncio.Queue
    maxsize,      \* subscriber -> maxsize of its queue (0 = unbounded)
    relayByte,    \* output byte of the relay expander PCF@0x21
    ledByte,      \* output byte of the LED expander PCF@0x20
    ctrl,         \* gate -> position of BaseGateController.run
    pendingDir,   \* gate -> direction of the command waiting in _cancel_motion
    motion,       \* gate -> the task self.motion_task refers to
    orphan,       \* gate -> a motion task no longer referred to but not finished
    timer,        \* gate -> ticks left of the sleep of the gate's motion task
    pairOffTicks, \* gate -> ticks for which both direction bits have been off
    lastExit,     \* gate -> exit path of the motion task that finished last
    running,      \* task that continues without yielding, or "none"
    aborting,     \* TaskGroup._aborting
    cancelReq,    \* task -> a cancellation has been requested and not delivered
    faults,       \* number of I2C faults injected so far
    pubCount,     \* number of events published so far
    collPc,       \* position of run_collector_ssr_controller
    active,       \* its set of active tools
    ssr_on,       \* its record of the output state
    seenOn,       \* tools whose most recently processed event was <tool>.on
    ssrActiveHigh,\* gpio.collector_ssr_active_high
    outputs_enabled, \* hardware.outputs_enabled
    ssrPin,       \* level of the collector SSR pin: "unset", "HIGH" or "LOW"
    stripPin,     \* level of the LED strip control pin
    received,     \* subscriber -> events it has taken from its queue, in order
    nextSeq,      \* publisher -> number of the next event it publishes
    polPc,        \* position of run_aqm_policy
    polCfg,       \* its configuration
    fan_is_on,    \* its record of the fan state
    fanPin,       \* level of the filter fan pin
    severe_latched, \* its edge latch of the severe state
    pol_is_bad,   \* its is_bad: <<>> before the first aqm.good / aqm.bad event
    lockoutLeft,  \* ticks until min_off_lockout_ms has passed since last_fan_off_at
    funWrites,    \* number of FUN PAUSE lines written to ser_tx
    fanWrites,    \* number of fan.write calls
    adc,          \* one _watch_one coroutine, its analog input and what it published
    aqm,          \* the aqm_reader coroutine and its serial line
    pcf,          \* one Pcf8574 instance and the byte on its bus
    drv,          \* one expander driver object, its device and its last call
    sup           \* _run_app: its position, its tasks and the loop's ready queue

vars == <<subs, queue, maxsize, relayByte, ledByte, ctrl, pendingDir, motion,
          orphan, timer, pairOffTicks, lastExit, running, aborting, cancelReq,
          faults, pubCount, collPc, active, ssr_on, seenOn, ssrActiveHigh,
          ssrPin, stripPin, received, nextSeq, polPc, polCfg, fan_is_on,
          fanPin, severe_latched, pol_is_bad, lockoutLeft, funWrites, fanWrites,
          adc, aqm,
          pcf, drv, sup, outputs_enabled>>

busVars   == <<subs, queue, maxsize, pubCount>>
gateVars  == <<relayByte, ledByte, ctrl, pendingDir, motion, orphan, timer,
               pairOffTicks, lastExit, faults>>
supVars   == <<aborting, cancelReq>>
collVars  == <<collPc, active, ssr_on, seenOn, ssrActiveHigh, ssrPin, stripPin,
               outputs_enabled>>

\* What the gate controllers, respectively the collector controller, never touch.
clientVars == <<received, nextSeq>>
polVars   == <<polPc, polCfg, fan_is_on, fanPin, severe_latched, pol_is_bad, funWrites,
               fanWrites>>
sensVars  == <<adc, aqm, pcf, drv, sup>>
notGate == <<collVars, clientVars, polVars, lockoutLeft, sensVars>>
notColl == <<gateVars, clientVars, polVars, lockoutLeft, sensVars>>
notPol  == <<gateVars, collVars, clientVars, sensVars>>
notDrv  == <<busVars, gateVars, supVars, running, collVars, clientVars, polVars,
             lockoutLeft, adc, aqm, pcf, sup>>
notSup  == <<busVars, gateVars, supVars, running, collVars, clientVars, polVars,
             lockoutLeft, adc, aqm, pcf, drv>>

----------------------------------------------------------------------------
(* Bounds of the model *)

MaxPub        == 2   \* events published in one run of the gate controllers
MaxCollPub    == 4   \* events published in one run of the collector controller
MaxBusPub     == 4   \* events published in one run of the bare event bus
MaxCap        == 2   \* largest maxsize a client of the bare bus subscribes with
MaxAppPub     == 2   \* events published in one run of the whole application
MaxVolt       == 3   \* largest voltage an ADC channel reads, in tenths of a volt
MaxConsec     == 2   \* largest consecutive_required of the ADC watcher
MaxPm         == 2   \* largest pm2.5 value the sensor reports, and largest threshold
MaxChunks     == 2   \* frames or stray bytes the sensor sends in a run
MaxPolPub     == 3   \* events published to the AQM policy running alone
MaxPcfOps     == 3   \* update_bits calls on the expander in a run
MaxSamples    == 3   \* samples one ADC channel reads in a run
MaxFrames     == 3   \* frames the sensor sends while the filter window is watched
MaxBootPub    == 2   \* events published in one life of the supervisor
MaxWakes      == 2   \* times a publisher is woken in one life of the supervisor
LockoutTicks  == 1   \* safety.min_off_lockout_ms in clock ticks, when it is set
DeadtimeTicks == 1   \* RELAY_DEADTIME_S in clock ticks
MaxDriveTicks == 2   \* MAX_DRIVE_S in clock ticks
MaxFaults     == 1   \* I2C faults injected in one run

----------------------------------------------------------------------------
(* Configuration taken from the source *)

Gates == {"saw", "lathe"}

SAW_LED_GREEN_BIT     == 6
SAW_LED_RED_BIT       == 2
SAW_RELAY_CLOSE_BIT   == 7
SAW_RELAY_OPEN_BIT    == 6
LATHE_LED_GREEN_BIT   == 7
LATHE_LED_RED_BIT     == 3
LATHE_RELAY_CLOSE_BIT == 5
LATHE_RELAY_OPEN_BIT  == 4
GateQueueMaxsize      == 100

RelayActiveLow == FALSE
LedActiveLow   == FALSE

GateConfig(g) ==
    IF g = "saw"
    THEN [event_on |-> "saw.on", event_off |-> "saw.off",
          led_green_bit |-> SAW_LED_GREEN_BIT, led_red_bit |-> SAW_LED_RED_BIT,
          relay_open_bit |-> SAW_RELAY_OPEN_BIT,
          relay_close_bit |-> SAW_RELAY_CLOSE_BIT]
    ELSE [event_on |-> "lathe.on", event_off |-> "lathe.off",
          led_green_bit |-> LATHE_LED_GREEN_BIT, led_red_bit |-> LATHE_LED_RED_BIT,
          relay_open_bit |-> LATHE_RELAY_OPEN_BIT,
          relay_close_bit |-> LATHE_RELAY_CLOSE_BIT]

ToolEvents == {"saw.on", "saw.off", "lathe.on", "lathe.off"}

Bits == 0..7

----------------------------------------------------------------------------
(* Event bus *)

QueueFull(q, size) == size > 0 /\ Len(q) >= size

\* Mutant: the event is put at the head of the queue.
PutNowaitFront(q, size, ev) == IF QueueFull(q, size) THEN q ELSE <<ev>> \o q

\* Mutant: the QueueFull of one subscriber ends the fan-out.
RECURSIVE FanOutStopAtFull(_, _, _)
FanOutStopAtFull(qs, order, ev) ==
    IF order = <<>> THEN qs
    ELSE LET s == Head(order)
         IN IF QueueFull(qs[s], maxsize[s]) THEN qs
            ELSE FanOutStopAtFull([qs EXCEPT ![s] = Append(qs[s], ev)],
                                  Tail(order), ev)

PutNowait(q, size, ev) == IF QueueFull(q, size) THEN q ELSE Append(q, ev)

RECURSIVE FanOut(_, _, _)
FanOut(qs, order, ev) ==
    IF order = <<>> THEN qs
    ELSE LET s == Head(order)
         IN FanOut([qs EXCEPT ![s] = PutNowait(qs[s], maxsize[s], ev)],
                   Tail(order), ev)

Publish(ev) ==
    /\ queue' = FanOut(queue, subs, ev)
    /\ pubCount' = pubCount + 1

Subscribe(s, size) ==
    /\ subs' = Append(subs, s)
    /\ maxsize' = [maxsize EXCEPT ![s] = size]

Subscribed == {subs[i] : i \in 1..Len(subs)}

RoomToPublish == pubCount < MaxPub

----------------------------------------------------------------------------
(* Relay bank and LED pair drivers *)

\* Mutant: the polarity is taken as active-low whatever the configuration says.
SetBitAsActiveLow(activeLow, byte, bit, on) ==
    IF ~on THEN byte \cup {bit} ELSE byte \ {bit}

SetBit(activeLow, byte, bit, on) ==
    LET drive_high == IF activeLow THEN ~on ELSE on
    IN IF drive_high THEN byte \cup {bit} ELSE byte \ {bit}

\* Mutant: the byte written holds the one bit only, not the byte read back.
set_relay_whole_byte(byte, bit, on) == SetBit(RelayActiveLow, {}, bit, on)

set_relay(byte, bit, on) == SetBit(RelayActiveLow, byte, bit, on)

\* Mutant: bit_a is cleared twice, bit_b is left as it was.
stop_pair_first_only(byte, bit_a, bit_b) ==
    SetBit(RelayActiveLow, SetBit(RelayActiveLow, byte, bit_a, FALSE), bit_a, FALSE)

stop_pair(byte, bit_a, bit_b) ==
    SetBit(RelayActiveLow, SetBit(RelayActiveLow, byte, bit_a, FALSE), bit_b, FALSE)

all_off == IF RelayActiveLow THEN Bits ELSE {}

LedSet(byte, g, red_on, green_on) ==
    SetBit(LedActiveLow,
           SetBit(LedActiveLow, byte, GateConfig(g).led_green_bit, green_on),
           GateConfig(g).led_red_bit, red_on)

set_red(byte, g)   == LedSet(byte, g, TRUE, FALSE)

\* Mutant: the pair is left as it was.
set_green_skipped(byte, g) == byte

set_green(byte, g) == LedSet(byte, g, FALSE, TRUE)

\* The relay board is wired PCF -> ULN2803 -> relay input: a HIGH bit energizes.
Energized(bit) == bit \in relayByte
LedLit(bit)    == bit \in ledByte

OpenBit(g)  == GateConfig(g).relay_open_bit
CloseBit(g) == GateConfig(g).relay_close_bit
TargetBit(g, dir)     == IF dir = "open" THEN OpenBit(g) ELSE CloseBit(g)
AntagonistBit(g, dir) == IF dir = "open" THEN CloseBit(g) ELSE OpenBit(g)

PairOff(byte, g) == OpenBit(g) \notin byte /\ CloseBit(g) \notin byte

----------------------------------------------------------------------------
(* Gate controller: controller task and motion task *)

NoTask == [st |-> "none", dir |-> "none", cancel |-> FALSE, exc |-> FALSE]

NewTask(dir) == [st |-> "created", dir |-> dir, cancel |-> FALSE, exc |-> FALSE]

DoneTask(failed) == [st |-> "done", dir |-> "none", cancel |-> FALSE, exc |-> failed]

Alive(t) == t.st \in {"created", "deadtime", "drive"}

\* The pair-off age of every gate after the relay byte has become newByte.
OffTicksAfter(newByte) ==
    [h \in Gates |->
        IF PairOff(newByte, h) /\ PairOff(relayByte, h) THEN pairOffTicks[h] ELSE 0]

WriteRelays(newByte) ==
    /\ relayByte' = newByte
    /\ pairOffTicks' = OffTicksAfter(newByte)

_relay_stop(byte, g) == stop_pair(byte, OpenBit(g), CloseBit(g))

\* Mutant: _cancel_motion requests the cancellation but does not await the task.
CancelMotionNoAwait(t) == FALSE

\* await self.motion_task suspends the controller iff the task is not done.
CancelMotionAwaits(t) == Alive(t)

\* Mutant: the sleep between the two relay writes is one tick short.
ShortDeadtime == DeadtimeTicks - 1

\* asyncio.sleep(RELAY_DEADTIME_S), in ticks.
RelayDeadtime == DeadtimeTicks

\* asyncio.sleep(MAX_DRIVE_S), in ticks.
MaxDrive == MaxDriveTicks

\* q.get() returns without yielding while the queue holds events.
KeepsRunning(g, pc, q) == IF pc = "wait" /\ q # <<>> THEN g ELSE "none"

\* run(): subscribe, boot state CLOSED (RED, both relays off), first q.get().
\* Whether task t has run its first step (a task that is not part of the
\* specification has nothing to run).
Booted(t) ==
    IF t \in Gates THEN ctrl[t] # "init"
    ELSE IF t = "collector" THEN collPc # "init"
    ELSE polPc # "init"

\* The order in which _run_app creates the tasks; the event loop runs the
\* first step of each task in this order.
TaskOrder == <<"policy", "lathe", "saw", "collector">>

BootTurn(t) ==
    \A i, j \in 1..Len(TaskOrder) :
        (TaskOrder[j] = t /\ i < j) => Booted(TaskOrder[i])

CtrlBoot(g) ==
    /\ ctrl[g] = "init"
    /\ running = "none"
    /\ BootTurn(g)
    /\ Subscribe(g, GateQueueMaxsize)
    /\ ledByte' = set_red(ledByte, g)
    /\ WriteRelays(_relay_stop(relayByte, g))
    /\ ctrl' = [ctrl EXCEPT ![g] = "wait"]
    /\ UNCHANGED <<queue, pubCount, pendingDir, motion, orphan, timer, lastExit, running,
                   faults, supVars, notGate>>

\* _cancel_motion followed by create_task, from the point where the old task
\* is known; old is self.motion_task, dir the direction of the new command.
\* Result: the controller's next position and the two task slots.
StartCommand(g, old, dir) ==
    IF old.st = "none" \/ (old.st = "done" /\ ~old.exc)
    THEN [pc |-> "wait", motion |-> NewTask(dir), orphan |-> orphan[g],
          pending |-> "none", stop |-> FALSE]
    ELSE IF old.st = "done"
    THEN \* the motion task's exception is re-raised: run() ends in _cleanup
         [pc |-> "failed", motion |-> NoTask, orphan |-> orphan[g],
          pending |-> "none", stop |-> TRUE]
    ELSE IF CancelMotionAwaits(old)
    THEN [pc |-> "cancelwait", motion |-> [old EXCEPT !.cancel = TRUE],
          orphan |-> orphan[g], pending |-> dir, stop |-> FALSE]
    ELSE [pc |-> "wait", motion |-> NewTask(dir),
          orphan |-> [old EXCEPT !.cancel = TRUE], pending |-> "none",
          stop |-> FALSE]

\* One iteration of the loop of run(): take an event and act on it.
CtrlGet(g) ==
    /\ ctrl[g] = "wait"
    /\ ~cancelReq[g]
    /\ running \in {"none", g}
    /\ queue[g] # <<>>
    /\ LET ev  == Head(queue[g])
           cfg == GateConfig(g)
           q2  == Tail(queue[g])
       IN /\ queue' = [queue EXCEPT ![g] = q2]
          /\ IF ev \in {cfg.event_on, cfg.event_off}
             THEN LET dir == IF ev = cfg.event_on THEN "open" ELSE "close"
                      r   == StartCommand(g, motion[g], dir)
                  IN /\ Alive(motion[g]) /\ ~CancelMotionAwaits(motion[g])
                            => orphan[g] = NoTask
                     /\ ledByte' = IF dir = "open" THEN set_green(ledByte, g)
                                                   ELSE set_red(ledByte, g)
                     /\ ctrl' = [ctrl EXCEPT ![g] = r.pc]
                     /\ motion' = [motion EXCEPT ![g] = r.motion]
                     /\ orphan' = [orphan EXCEPT ![g] = r.orphan]
                     /\ pendingDir' = [pendingDir EXCEPT ![g] = r.pending]
                     /\ IF r.stop THEN WriteRelays(_relay_stop(relayByte, g))
                                  ELSE UNCHANGED <<relayByte, pairOffTicks>>
                     /\ running' = KeepsRunning(g, r.pc, q2)
             ELSE /\ running' = KeepsRunning(g, "wait", q2)
                  /\ UNCHANGED <<ledByte, ctrl, motion, orphan, pendingDir,
                                 relayByte, pairOffTicks>>
    /\ UNCHANGED <<subs, maxsize, pubCount, timer, lastExit, faults, supVars, notGate>>

\* _cancel_motion resumes after the cancelled task has finished: the
\* CancelledError is caught (also one aimed at the controller itself),
\* motion_task is cleared and the new motion task is created.
CtrlResume(g) ==
    /\ ctrl[g] = "cancelwait"
    /\ running = "none"
    /\ motion[g].st = "done"
    /\ motion' = [motion EXCEPT ![g] = NewTask(pendingDir[g])]
    /\ pendingDir' = [pendingDir EXCEPT ![g] = "none"]
    /\ ctrl' = [ctrl EXCEPT ![g] = "wait"]
    /\ cancelReq' = [cancelReq EXCEPT ![g] = FALSE]
    /\ running' = KeepsRunning(g, "wait", queue[g])
    /\ UNCHANGED <<busVars, relayByte, ledByte, orphan, timer, pairOffTicks,
                   lastExit, faults, aborting, notGate>>

\* First step of _drive_*_then_stop: de-energize the antagonist, sleep deadtime.
\* An I2C fault makes set_relay raise; the finally block then runs stop_pair.
MotionStart(g) ==
    /\ motion[g].st = "created" /\ ~motion[g].cancel
    /\ running = "none"
    /\ \E fault \in BOOLEAN :
         IF fault
         THEN /\ faults < MaxFaults
              /\ faults' = faults + 1
              /\ WriteRelays(_relay_stop(relayByte, g))
              /\ motion' = [motion EXCEPT ![g] = DoneTask(TRUE)]
              /\ lastExit' = [lastExit EXCEPT ![g] = "exception"]
              /\ UNCHANGED timer
         ELSE /\ WriteRelays(set_relay(relayByte,
                                       AntagonistBit(g, motion[g].dir), FALSE))
              /\ motion' = [motion EXCEPT ![g].st = "deadtime"]
              /\ timer' = [timer EXCEPT ![g] = RelayDeadtime]
              /\ UNCHANGED <<faults, lastExit>>
    /\ UNCHANGED <<busVars, ledByte, ctrl, pendingDir, orphan, running, supVars, notGate>>

\* The deadtime sleep is over: energize the target relay, sleep max_drive.
MotionEnergize(g) ==
    /\ motion[g].st = "deadtime" /\ ~motion[g].cancel
    /\ timer[g] = 0
    /\ running = "none"
    /\ \E fault \in BOOLEAN :
         IF fault
         THEN /\ faults < MaxFaults
              /\ faults' = faults + 1
              /\ WriteRelays(_relay_stop(relayByte, g))
              /\ motion' = [motion EXCEPT ![g] = DoneTask(TRUE)]
              /\ lastExit' = [lastExit EXCEPT ![g] = "exception"]
              /\ UNCHANGED timer
         ELSE /\ WriteRelays(set_relay(relayByte, TargetBit(g, motion[g].dir), TRUE))
              /\ motion' = [motion EXCEPT ![g].st = "drive"]
              /\ timer' = [timer EXCEPT ![g] = MaxDrive]
              /\ UNCHANGED <<faults, lastExit>>
    /\ UNCHANGED <<busVars, ledByte, ctrl, pendingDir, orphan, running, supVars, notGate>>

\* Mutant: the task ends after max_drive without stopping the pair.
MotionExpireNoStop(g) ==
    /\ motion[g].st = "drive" /\ ~motion[g].cancel
    /\ timer[g] = 0
    /\ running = "none"
    /\ motion' = [motion EXCEPT ![g] = DoneTask(FALSE)]
    /\ lastExit' = [lastExit EXCEPT ![g] = "normal"]
    /\ UNCHANGED <<busVars, relayByte, pairOffTicks, ledByte, ctrl, pendingDir,
                   orphan, timer, running, faults, supVars, notGate>>

\* The max_drive sleep is over: the finally block stops the pair.
MotionExpire(g) ==
    /\ motion[g].st = "drive" /\ ~motion[g].cancel
    /\ timer[g] = 0
    /\ running = "none"
    /\ WriteRelays(_relay_stop(relayByte, g))
    /\ motion' = [motion EXCEPT ![g] = DoneTask(FALSE)]
    /\ lastExit' = [lastExit EXCEPT ![g] = "normal"]
    /\ UNCHANGED <<busVars, ledByte, ctrl, pendingDir, orphan, timer, running,
                   faults, supVars, notGate>>

\* CancelledError is thrown into a motion task at its suspension point.  A task
\* that has not started never enters its try block; otherwise finally runs.
MotionCancelled(g) ==
    /\ running = "none"
    /\ \E slot \in {"cur", "orphan"} :
         LET t == IF slot = "cur" THEN motion[g] ELSE orphan[g]
         IN /\ Alive(t) /\ t.cancel
            /\ IF t.st = "created"
               THEN UNCHANGED <<relayByte, pairOffTicks>>
               ELSE WriteRelays(_relay_stop(relayByte, g))
            /\ lastExit' = [lastExit EXCEPT ![g] = "cancel_" \o t.st]
            /\ IF slot = "cur"
               THEN /\ motion' = [motion EXCEPT ![g] = DoneTask(FALSE)]
                    /\ timer' = [timer EXCEPT ![g] = 0]
                    /\ UNCHANGED orphan
               ELSE /\ orphan' = [orphan EXCEPT ![g] = NoTask]
                    /\ UNCHANGED <<motion, timer>>
    /\ UNCHANGED <<busVars, ledByte, ctrl, pendingDir, running, faults, supVars, notGate>>

\* _cleanup: cancel the motion task, stop the pair, close the LED driver
\* (restore=False: no byte is written).  Result as for StartCommand.
Cleanup(g, old) ==
    IF old.st = "none" \/ (old.st = "done" /\ ~old.exc)
    THEN [pc |-> "cancelled", motion |-> NoTask, orphan |-> orphan[g], stop |-> TRUE]
    ELSE IF old.st = "done"
    THEN \* except Exception: the relay stop after _cancel_motion is skipped
         [pc |-> "cancelled", motion |-> NoTask, orphan |-> orphan[g], stop |-> FALSE]
    ELSE IF CancelMotionAwaits(old)
    THEN [pc |-> "cleanupwait", motion |-> [old EXCEPT !.cancel = TRUE],
          orphan |-> orphan[g], stop |-> FALSE]
    ELSE [pc |-> "cancelled", motion |-> NoTask,
          orphan |-> [old EXCEPT !.cancel = TRUE], stop |-> TRUE]

\* CancelledError is delivered to the controller waiting in q.get().
CtrlCancelled(g) ==
    /\ ctrl[g] = "wait"
    /\ cancelReq[g]
    /\ running = "none"
    /\ LET r == Cleanup(g, motion[g])
       IN /\ Alive(motion[g]) /\ ~CancelMotionAwaits(motion[g]) => orphan[g] = NoTask
          /\ ctrl' = [ctrl EXCEPT ![g] = r.pc]
          /\ motion' = [motion EXCEPT ![g] = r.motion]
          /\ orphan' = [orphan EXCEPT ![g] = r.orphan]
          /\ IF r.stop THEN WriteRelays(_relay_stop(relayByte, g))
                       ELSE UNCHANGED <<relayByte, pairOffTicks>>
    /\ cancelReq' = [cancelReq EXCEPT ![g] = FALSE]
    /\ UNCHANGED <<busVars, ledByte, pendingDir, timer, lastExit, running,
                   faults, aborting, notGate>>

\* _cleanup resumes after the cancelled motion task has finished.
CtrlCleanupResume(g) ==
    /\ ctrl[g] = "cleanupwait"
    /\ running = "none"
    /\ motion[g].st = "done"
    /\ motion' = [motion EXCEPT ![g] = NoTask]
    /\ WriteRelays(_relay_stop(relayByte, g))
    /\ ctrl' = [ctrl EXCEPT ![g] = "cancelled"]
    /\ UNCHANGED <<busVars, ledByte, pendingDir, orphan, timer, lastExit,
                   running, faults, supVars, notGate>>

\* Time passes by one tick.
Tick ==
    /\ running = "none"
    /\ timer' = [g \in Gates |-> IF timer[g] > 0 THEN timer[g] - 1 ELSE 0]
    /\ pairOffTicks' = [g \in Gates |->
            IF PairOff(relayByte, g) /\ pairOffTicks[g] < DeadtimeTicks
            THEN pairOffTicks[g] + 1 ELSE pairOffTicks[g]]
    /\ lockoutLeft' = IF lockoutLeft > 0 THEN lockoutLeft - 1 ELSE 0
    /\ <<timer', pairOffTicks', lockoutLeft'>> # <<timer, pairOffTicks, lockoutLeft>>
    /\ UNCHANGED <<busVars, relayByte, ledByte, ctrl, pendingDir, motion, orphan,
                   lastExit, running, faults, supVars, collVars, clientVars, sensVars,
                   polVars>>

\* A publisher task (the ADC watcher) publishes a tool event.  The watcher
\* needs consecutive_required sample periods before its first event, so every
\* controller created before it has subscribed by then.
PublishTool ==
    /\ running = "none"
    /\ RoomToPublish
    /\ \A g \in Gates : ctrl[g] # "init"
    /\ \E ev \in ToolEvents : Publish(ev)
    /\ UNCHANGED <<subs, maxsize, gateVars, running, supVars, notGate>>

----------------------------------------------------------------------------
(* Collector SSR controller *)

CollectorTools == <<"saw", "lathe">>

LED_CTRL_PIN_ACTIVE_HIGH == TRUE

\* f"{tool}.on" and f"{tool}.off"
OnEvent(tool)  == IF tool = "saw" THEN "saw.on" ELSE "lathe.on"
OffEvent(tool) == IF tool = "saw" THEN "saw.off" ELSE "lathe.off"

\* GPIOOut.write: the level that switches the output on or off.
GpioLevel(active_high, on) ==
    IF (IF active_high THEN on ELSE ~on) THEN "HIGH" ELSE "LOW"

\* The load is energized when the pin is driven to its active level.
GpioEnergized(active_high, level) ==
    level = (IF active_high THEN "HIGH" ELSE "LOW")

SsrEnergized   == GpioEnergized(ssrActiveHigh, ssrPin)
StripEnergized == GpioEnergized(LED_CTRL_PIN_ACTIVE_HIGH, stripPin)

\* blower_on / blower_off: strip light first, then the SSR, in one step.
Blower(on) ==
    /\ stripPin' = GpioLevel(LED_CTRL_PIN_ACTIVE_HIGH, on)
    /\ ssrPin' = GpioLevel(ssrActiveHigh, on)

\* The loop over cfg.tools: the new active set and whether it changed.
RECURSIVE UpdateActive(_, _, _, _)
UpdateActive(tools, ev, act, changed) ==
    IF tools = <<>> THEN [active |-> act, changed |-> changed]
    ELSE LET tool == Head(tools)
         IN IF ev = OnEvent(tool)
            THEN IF tool \notin act
                 THEN UpdateActive(Tail(tools), ev, act \cup {tool}, TRUE)
                 ELSE UpdateActive(Tail(tools), ev, act, changed)
            ELSE IF ev = OffEvent(tool)
            THEN IF tool \in act
                 THEN UpdateActive(Tail(tools), ev, act \ {tool}, TRUE)
                 ELSE UpdateActive(Tail(tools), ev, act, changed)
            ELSE UpdateActive(Tail(tools), ev, act, changed)

\* Mutant: the collector is wanted only while every configured tool runs.
WantOnAll(act) == act = {CollectorTools[i] : i \in 1..Len(CollectorTools)}

\* want_on = bool(active)
WantOn(act) == act # {}

\* The tools whose latest event is an on event, after ev has been processed.
SeenAfter(ev) ==
    (seenOn \cup {t \in {"saw", "lathe"} : ev = OnEvent(t)})
        \ {t \in {"saw", "lathe"} : ev = OffEvent(t)}

\* First step: outputs forced off, subscription, first q.get().
CollBoot ==
    /\ collPc = "init"
    /\ running = "none"
    /\ BootTurn("collector")
    /\ outputs_enabled
    /\ Blower(FALSE)
    /\ ssr_on' = FALSE
    /\ Subscribe("collector", 0)
    /\ active' = {}
    /\ collPc' = "wait"
    /\ UNCHANGED <<queue, pubCount, seenOn, ssrActiveHigh, outputs_enabled, running,
                   supVars, notColl>>

\* One iteration of the loop: an event that changes the active set may switch
\* the outputs and is followed by sleep(0); any other event is skipped.
CollGet ==
    /\ collPc = "wait"
    /\ ~cancelReq["collector"]
    /\ running \in {"none", "collector"}
    /\ outputs_enabled
    /\ queue["collector"] # <<>>
    /\ LET ev == Head(queue["collector"])
           q2 == Tail(queue["collector"])
           r  == UpdateActive(CollectorTools, ev, active, FALSE)
           want_on == WantOn(r.active)
       IN /\ queue' = [queue EXCEPT !["collector"] = q2]
          /\ active' = r.active
          /\ seenOn' = SeenAfter(ev)
          /\ IF ~r.changed
             THEN /\ running' = KeepsRunning("collector", "wait", q2)
                  /\ UNCHANGED <<collPc, ssr_on, ssrPin, stripPin>>
             ELSE /\ collPc' = "yield"
                  /\ running' = "none"
                  /\ IF want_on /\ ~ssr_on
                     THEN Blower(TRUE) /\ ssr_on' = TRUE
                     ELSE IF ~want_on /\ ssr_on
                     THEN Blower(FALSE) /\ ssr_on' = FALSE
                     ELSE UNCHANGED <<ssr_on, ssrPin, stripPin>>
    /\ UNCHANGED <<subs, maxsize, pubCount, ssrActiveHigh, outputs_enabled, supVars,
                   notColl>>

\* asyncio.sleep(0) returns: back to q.get().
CollYield ==
    /\ collPc = "yield"
    /\ running = "none"
    /\ ~cancelReq["collector"]
    /\ collPc' = "wait"
    /\ running' = KeepsRunning("collector", "wait", queue["collector"])
    /\ UNCHANGED <<busVars, active, ssr_on, seenOn, ssrActiveHigh, ssrPin,
                   stripPin, outputs_enabled, supVars, notColl>>

\* Mutant: the cancellation handler re-raises without forcing the outputs off.
CollCancelledNoOff ==
    /\ collPc \in {"wait", "yield"}
    /\ cancelReq["collector"]
    /\ running = "none"
    /\ collPc' = "cancelled"
    /\ cancelReq' = [cancelReq EXCEPT !["collector"] = FALSE]
    /\ UNCHANGED <<busVars, active, ssr_on, seenOn, ssrActiveHigh, ssrPin,
                   stripPin, outputs_enabled, running, aborting, notColl>>

\* CancelledError is delivered at q.get() or at sleep(0): force OFF, re-raise.
CollCancelled ==
    /\ collPc \in {"wait", "yield"}
    /\ cancelReq["collector"]
    /\ running = "none"
    /\ outputs_enabled
    /\ Blower(FALSE)
    /\ collPc' = "cancelled"
    /\ cancelReq' = [cancelReq EXCEPT !["collector"] = FALSE]
    /\ UNCHANGED <<busVars, active, ssr_on, seenOn, ssrActiveHigh, outputs_enabled,
                   running, aborting, notColl>>

\* Outputs inhibited: the controller creates no GPIO object, subscribes and
\* only follows the events.
CollBootInhibited ==
    /\ collPc = "init"
    /\ running = "none"
    /\ BootTurn("collector")
    /\ ~outputs_enabled
    /\ Subscribe("collector", 0)
    /\ active' = {}
    /\ collPc' = "wait"
    /\ UNCHANGED <<queue, pubCount, ssr_on, seenOn, ssrActiveHigh, ssrPin, stripPin,
                   outputs_enabled, running, supVars, notColl>>

\* One iteration of the loop with outputs inhibited: add or discard the tool,
\* then sleep(0).
CollGetInhibited ==
    /\ collPc = "wait"
    /\ ~cancelReq["collector"]
    /\ running \in {"none", "collector"}
    /\ ~outputs_enabled
    /\ queue["collector"] # <<>>
    /\ LET ev == Head(queue["collector"])
       IN /\ queue' = [queue EXCEPT !["collector"] = Tail(queue["collector"])]
          /\ active' = UpdateActive(CollectorTools, ev, active, FALSE).active
          /\ seenOn' = SeenAfter(ev)
    /\ collPc' = "yield"
    /\ running' = "none"
    /\ UNCHANGED <<subs, maxsize, pubCount, ssr_on, ssrActiveHigh, ssrPin, stripPin,
                   outputs_enabled, supVars, notColl>>

\* The ADC watcher publishes a tool event after the controller has subscribed.
CollPublish ==
    /\ running = "none"
    /\ pubCount < MaxCollPub
    /\ collPc # "init"
    /\ \E ev \in ToolEvents : Publish(ev)
    /\ UNCHANGED <<subs, maxsize, collVars, running, supVars, notColl>>

----------------------------------------------------------------------------
(* ADC watcher: _watch_one, one coroutine per channel *)

Volts == 0..MaxVolt

\* The example of the specification: thresholds 1.00 V / 0.30 V, three
\* consecutive samples, and its sample stream, in tenths of a volt.
ExampleChannel ==
    [tool |-> "saw", on_threshold |-> 10, off_threshold |-> 3,
     consecutive_required |-> 3,
     feed |-> <<2, 5, 9, 10, 10, 10, 5, 8, 6, 2, 2, 2>>]

\* Mutant: every sample above off_threshold counts towards ON.
CountsAboveOff(w, v) == v > w.off_threshold

\* if v >= on_threshold
CountsAbove(w, v) == v >= w.on_threshold

\* Mutant: one sample more than consecutive_required is needed.
CommittedLate(w, count) == count > w.consecutive_required

\* if above_on >= consecutive_required (the same test for below_off)
Committed(w, count) == count >= w.consecutive_required

\* Mutant: the edge is published but is_on keeps its value.
CommitKeepsState(w, on) ==
    [w EXCEPT !.above_on = 0, !.below_off = 0,
              !.published = Append(@, [type |-> w.tool \o (IF on THEN ".on" ELSE ".off"),
                                       at |-> w.read + 1])]

\* Commit an edge: set is_on, reset both counters, publish the event.  The
\* event is recorded with the number of the sample that caused it.
Commit(w, on) ==
    [w EXCEPT !.is_on = on, !.above_on = 0, !.below_off = 0,
              !.published = Append(@, [type |-> w.tool \o (IF on THEN ".on" ELSE ".off"),
                                       at |-> w.read + 1])]

\* One iteration of the loop of _watch_one on the sample v.
WatchStep(w, v) ==
    IF ~w.is_on
    THEN IF CountsAbove(w, v)
         THEN IF Committed(w, w.above_on + 1)
              THEN Commit(w, TRUE)
              ELSE [w EXCEPT !.above_on = @ + 1]
         ELSE [w EXCEPT !.above_on = 0]
    ELSE IF v <= w.off_threshold
         THEN IF Committed(w, w.below_off + 1)
              THEN Commit(w, FALSE)
              ELSE [w EXCEPT !.below_off = @ + 1]
         ELSE [w EXCEPT !.below_off = 0]

\* The coroutine reads the next voltage of its input, then sleeps a period.
AdcSample ==
    /\ adc.read < Len(adc.feed)
    /\ adc' = [WatchStep(adc, adc.feed[adc.read + 1]) EXCEPT !.read = adc.read + 1]
    /\ UNCHANGED <<busVars, gateVars, supVars, running, collVars, clientVars,
                   polVars, lockoutLeft, aqm, pcf, drv, sup>>

\* A channel before its first sample; the feed is what its input will read.
NewChannel(c) ==
    [tool |-> c.tool, on_threshold |-> c.on_threshold,
     off_threshold |-> c.off_threshold,
     consecutive_required |-> c.consecutive_required, feed |-> c.feed,
     is_on |-> FALSE, above_on |-> 0, below_off |-> 0, read |-> 0,
     published |-> <<>>]

InitAdc ==
    \/ adc = NewChannel(ExampleChannel)
    \/ \E t \in Gates, on, off \in Volts, n \in 1..MaxConsec, k \in 0..MaxSamples :
         \E f \in [1..k -> Volts] :
            adc = NewChannel([tool |-> t, on_threshold |-> on, off_threshold |-> off,
                              consecutive_required |-> n, feed |-> f])

\* Configurations run_adc_watch is started with; the thresholds are those of
\* the saw channel.
AdcCfgs ==
    [sample_hz : {0, 1}, consecutive_required : 0..MaxConsec,
     saw_channel : {0, 1}, lathe_channel : {0, 1},
     on_threshold : Volts, off_threshold : Volts]

\* The checks run_adc_watch makes before it starts the channel tasks.
AdcConfigAccepted(c) ==
    /\ ~(c.sample_hz <= 0)
    /\ ~(c.consecutive_required < 1)
    /\ ~(c.saw_channel # 0)
    /\ ~(c.lathe_channel # 1)

\* run_adc_watch up to the task group: ValueError, or the channel task.
AdcStart ==
    /\ adc.pc = "start"
    /\ adc' = IF AdcConfigAccepted(adc.cfg)
              THEN [pc |-> "run", cfg |-> adc.cfg, input |-> adc.input] @@
                   NewChannel([tool |-> "saw",
                               on_threshold |-> adc.cfg.on_threshold,
                               off_threshold |-> adc.cfg.off_threshold,
                               consecutive_required |-> adc.cfg.consecutive_required,
                               feed |-> adc.input])
              ELSE [adc EXCEPT !.pc = "rejected"]
    /\ UNCHANGED <<busVars, gateVars, supVars, running, collVars, clientVars,
                   polVars, lockoutLeft, aqm, pcf, drv, sup>>

\* run_adc_watch before its first step; input is what the saw channel reads.
InitAdcStart ==
    \E c \in AdcCfgs, input \in [1..MaxSamples -> Volts] :
        adc = [pc |-> "start", cfg |-> c, input |-> input, read |-> 0,
               feed |-> <<>>, published |-> <<>>]

\* What analog_in.voltage, a synchronous I2C transfer made on the event-loop
\* thread, can do: return a voltage, raise, or not return.
PairReads ==
    {[r |-> "value", v |-> v] : v \in {0, MaxVolt}}
        \cup {[r |-> "error", v |-> 0], [r |-> "stuck", v |-> 0]}

\* The two tasks of the task group of run_adc_watch are suspended in
\* asyncio.sleep(period); task t is resumed and takes its next sample.  While
\* a read does not return, the event loop runs nothing; a read that raises
\* ends the task with that exception.
PairSample(t) ==
    /\ adc.blocked = "none"
    /\ adc.ch[t].st = "running"
    /\ adc.ch[t].read < Len(adc.ch[t].feed)
    /\ LET w == adc.ch[t]
           o == w.feed[w.read + 1]
       IN adc' = IF o.r = "stuck" THEN [adc EXCEPT !.blocked = t]
                 ELSE IF o.r = "error"
                 THEN [adc EXCEPT !.ch[t].st = "failed", !.ch[t].read = @ + 1]
                 ELSE [adc EXCEPT !.ch[t] = [WatchStep(w, o.v) EXCEPT !.read = w.read + 1]]
    /\ UNCHANGED <<busVars, gateVars, supVars, running, collVars, clientVars,
                   polVars, lockoutLeft, aqm, pcf, drv, sup>>

\* TaskGroup._abort after a task of the group has failed: the other task
\* receives CancelledError in its sleep.
PairCancelled(t) ==
    /\ adc.blocked = "none"
    /\ adc.ch[t].st = "running"
    /\ \E u \in Gates \ {t} : adc.ch[u].st = "failed"
    /\ adc' = [adc EXCEPT !.ch[t].st = "cancelled"]
    /\ UNCHANGED <<busVars, gateVars, supVars, running, collVars, clientVars,
                   polVars, lockoutLeft, aqm, pcf, drv, sup>>

\* The two channel tasks before their first sample, each with what its
\* input will do; every returned voltage crossing a threshold is an edge.
InitAdcPair ==
    \E f \in [Gates -> [1..MaxSamples -> PairReads]] :
        adc = [blocked |-> "none",
               ch |-> [t \in Gates |->
                         [st |-> "running"] @@
                         NewChannel([tool |-> t, on_threshold |-> MaxVolt,
                                     off_threshold |-> 0,
                                     consecutive_required |-> 1, feed |-> f[t]])]]

----------------------------------------------------------------------------
(* AQM reader: aqm_reader and its PMS1003 serial line *)

START1 == 66
START2 == 77
FRAME_LEN == 32

RECURSIVE Sum(_)
Sum(bytes) == IF bytes = <<>> THEN 0 ELSE Head(bytes) + Sum(Tail(bytes))

\* Mutant: only the length of the frame is tested.
ChecksumLengthOnly(frame) == Len(frame) = FRAME_LEN

\* _checksum_ok; frame[k] of the code is frame[k + 1] here.
ChecksumOk(frame) ==
    /\ Len(frame) = FRAME_LEN
    /\ frame[31] * 256 + frame[32] = Sum(SubSeq(frame, 1, 30)) % 65536

\* Mutant: after a failed checksum the input buffer is thrown away.
AfterBadChecksumFlush(buf) == <<>>

\* The bytes still unread when the checksum of the candidate has failed: b1,
\* b2 and the 30 bytes of ser.read(30) have been consumed.
AfterBadChecksum(buf) == SubSeq(buf, FRAME_LEN + 1, Len(buf))

\* _find_frame_blocking on the bytes the line can deliver before the read
\* times out: the frame returned (<<>> for None) and the bytes left unread.
RECURSIVE FindFrame(_)
FindFrame(buf) ==
    IF buf = <<>> THEN [frame |-> <<>>, rest |-> <<>>]
    ELSE IF buf[1] # START1 THEN FindFrame(Tail(buf))
    ELSE IF Len(buf) < 2 THEN [frame |-> <<>>, rest |-> <<>>]
    ELSE IF buf[2] # START2 THEN FindFrame(SubSeq(buf, 3, Len(buf)))
    ELSE IF Len(buf) < FRAME_LEN THEN [frame |-> <<>>, rest |-> <<>>]
    ELSE IF ChecksumOk(SubSeq(buf, 1, FRAME_LEN))
         THEN [frame |-> SubSeq(buf, 1, FRAME_LEN),
               rest |-> SubSeq(buf, FRAME_LEN + 1, Len(buf))]
         ELSE FindFrame(AfterBadChecksum(buf))

\* _parse_metrics, the pm2.5 field: bytes 6-7 (CF=1) or 12-13 (atmospheric).
ParsePm25(frame, use_cf1) ==
    IF use_cf1 THEN frame[7] * 256 + frame[8] ELSE frame[13] * 256 + frame[14]

\* Mutant: the configured bad_off_threshold is used as it is.
ClampNone(bad_off_th, bad_on_th) == bad_off_th

\* _clamp_bad_off_threshold
ClampBadOff(bad_off_th, bad_on_th) ==
    IF bad_off_th >= bad_on_th THEN bad_on_th - 1 ELSE bad_off_th

\* _avg_last: int(round(sum(tail) / k)), round() rounding halves to even.
AvgLast(hist, n) ==
    IF n <= 1 \/ Len(hist) <= 1 THEN hist[Len(hist)]
    ELSE LET k   == IF n < Len(hist) THEN n ELSE Len(hist)
             tot == Sum(SubSeq(hist, Len(hist) - k + 1, Len(hist)))
             q   == tot \div k
             r   == tot % k
         IN IF 2 * r < k THEN q
            ELSE IF 2 * r > k THEN q + 1
            ELSE IF q % 2 = 0 THEN q ELSE q + 1

\* deque(maxlen=max_win).append
HistAppend(hist, v, max_win) ==
    IF Len(hist) < max_win THEN Append(hist, v)
    ELSE Append(SubSeq(hist, Len(hist) - max_win + 2, Len(hist)), v)

\* Mutant: aqm.good / aqm.bad is published on every frame.
AnnouncesAlways(last_is_bad, is_bad) == TRUE

\* if last_is_bad is None or is_bad != last_is_bad; an Optional value is
\* <<>> for None and <<v>> for the value v.
Announces(last_is_bad, is_bad) == last_is_bad = <<>> \/ <<is_bad>> # last_is_bad

\* A frame of the sensor reporting pm2.5 = pm in both fields, with a correct
\* checksum or with one that is off by one.
SensorFrame(pm, good) ==
    LET body == <<START1, START2, 0, 28, 0, 0, pm \div 256, pm % 256, 0, 0,
                  0, 0, pm \div 256, pm % 256>> \o [i \in 1..16 |-> 0]
        ck   == (Sum(body) + (IF good THEN 0 ELSE 1)) % 65536
    IN body \o <<ck \div 256, ck % 256>>

\* What the sensor can put on the line at once: a frame, a frame damaged in
\* transit, or a stray START1 byte.
Chunks ==
    {SensorFrame(pm, TRUE) : pm \in 0..MaxPm}
        \cup {SensorFrame(MaxPm, FALSE), <<START1>>}

AqmArrive ==
    /\ aqm.pc = "read"
    /\ Len(aqm.arrived) < MaxChunks
    /\ \E c \in Chunks :
          aqm' = [aqm EXCEPT !.serial = @ \o c, !.arrived = Append(@, c)]
    /\ UNCHANGED <<busVars, gateVars, supVars, running, collVars, clientVars,
                   polVars, lockoutLeft, adc, pcf, drv, sup>>

\* One iteration of the loop: the blocking scan, and for a frame the filter,
\* aqm.metrics, the hysteresis and the aqm.good / aqm.bad announcement.
AqmRead ==
    /\ aqm.pc = "read"
    /\ aqm.serial # <<>>
    /\ running = "none"
    /\ Booted("policy")
    /\ LET found   == FindFrame(aqm.serial)
           hist    == HistAppend(aqm.pm25_hist, ParsePm25(found.frame, aqm.use_cf1),
                                 IF aqm.win_good > aqm.win_bad THEN aqm.win_good
                                                               ELSE aqm.win_bad)
           pm25    == AvgLast(hist, IF aqm.is_bad THEN aqm.win_bad ELSE aqm.win_good)
           is_bad  == IF aqm.is_bad THEN ~(pm25 <= aqm.bad_off_th)
                                    ELSE pm25 >= aqm.bad_on_th
           ev      == (IF is_bad THEN "aqm.bad" ELSE "aqm.good")
                          \o (IF pm25 >= aqm.sev_th THEN ".severe" ELSE "")
           metrics == FanOut(queue, subs, "aqm.metrics")
       IN IF found.frame = <<>>
          THEN /\ aqm' = [aqm EXCEPT !.serial = found.rest, !.frame = <<>>]
               /\ UNCHANGED <<queue, pubCount>>
          ELSE /\ aqm' = [aqm EXCEPT !.serial = found.rest, !.frame = found.frame,
                                     !.pm25_hist = hist, !.last_pm25 = <<pm25>>,
                                     !.is_bad = is_bad,
                                     !.last_is_bad =
                                         IF Announces(aqm.last_is_bad, is_bad)
                                         THEN <<is_bad>> ELSE @]
               /\ IF Announces(aqm.last_is_bad, is_bad)
                  THEN /\ queue' = FanOut(metrics, subs, ev)
                       /\ pubCount' = pubCount + 2
                  ELSE /\ queue' = metrics
                       /\ pubCount' = pubCount + 1
    /\ UNCHANGED <<subs, maxsize, gateVars, supVars, running, collVars, clientVars,
                   polVars, lockoutLeft, adc, pcf, drv, sup>>

\* The reader after its configuration is loaded, before its first read.
InitAqm ==
    \E on, sev \in 1..MaxPm, off \in 0..MaxPm, cf1 \in BOOLEAN,
       win \in {<<1, 1>>, <<1, 2>>, <<2, 2>>} :
        aqm = [pc |-> "read", bad_on_th |-> on, bad_off_cfg |-> off,
               bad_off_th |-> ClampBadOff(off, on), sev_th |-> sev,
               win_good |-> win[1], win_bad |-> win[2], use_cf1 |-> cf1,
               serial |-> <<>>, arrived |-> <<>>, frame |-> <<>>,
               pm25_hist |-> <<>>, last_pm25 |-> <<>>,
               is_bad |-> FALSE, last_is_bad |-> <<>>]

\* The sensor sends an undamaged frame.
AqmFrame ==
    /\ aqm.pc = "read"
    /\ Len(aqm.arrived) < MaxFrames
    /\ \E pm \in 0..MaxPm :
          aqm' = [aqm EXCEPT !.serial = @ \o SensorFrame(pm, TRUE),
                             !.arrived = Append(@, SensorFrame(pm, TRUE))]
    /\ UNCHANGED <<busVars, gateVars, supVars, running, collVars, clientVars,
                   polVars, lockoutLeft, adc, pcf, drv, sup>>

\* The reader with a filter window for bad air that is longer than the one
\* for good air (filter_window_bad_mult > 1, or filter_window_bad set).
InitAqmFilter ==
    \E on \in 1..MaxPm, off \in 0..MaxPm, win \in {<<1, 2>>, <<1, 3>>, <<2, 3>>} :
        aqm = [pc |-> "read", bad_on_th |-> on, bad_off_cfg |-> off,
               bad_off_th |-> ClampBadOff(off, on), sev_th |-> MaxPm,
               win_good |-> win[1], win_bad |-> win[2], use_cf1 |-> TRUE,
               serial |-> <<>>, arrived |-> <<>>, frame |-> <<>>,
               pm25_hist |-> <<>>, last_pm25 |-> <<>>,
               is_bad |-> FALSE, last_is_bad |-> <<>>]

----------------------------------------------------------------------------
(* PCF8574 wrapper of the v2 tree: Pcf8574.update_bits *)

\* Bits a caller passes in mask and value: the lowest and the highest bit of
\* the byte and one beyond it; the arguments are truncated to eight bits.
ArgBits == {0, 7, 8}

\* Mutant: the bits of value outside the mask are written too.
UpdateUnmasked(state, mask, value) == (state \ (mask \cap Bits)) \cup (value \cap Bits)

\* new_state = (self._state & ~mask) | (value & mask), after mask &= 0xFF and
\* value &= 0xFF.
UpdateBitsByte(state, mask, value) ==
    (state \ (mask \cap Bits)) \cup ((value \cap Bits) \cap (mask \cap Bits))

PcfCallers == {"leds", "relays"}

\* A task calls update_bits(mask, value); the call has not run yet.
PcfCall(c) ==
    /\ pcf.pending[c] = <<>>
    /\ pcf.calls < MaxPcfOps
    /\ \E mask, value \in SUBSET ArgBits :
          pcf' = [pcf EXCEPT !.pending[c] = <<mask, value>>, !.calls = @ + 1]
    /\ UNCHANGED <<busVars, gateVars, supVars, running, collVars, clientVars,
                   polVars, lockoutLeft, adc, aqm, drv, sup>>

\* The call runs: the lock is free, because no holder suspends inside it,
\* and the read-modify-write and the bus write happen in one step.  expect
\* records, per bit, the value given by the latest call whose mask had it.
PcfUpdate(c) ==
    /\ pcf.pending[c] # <<>>
    /\ LET mask  == pcf.pending[c][1]
           value == pcf.pending[c][2]
           new   == UpdateBitsByte(pcf.state, mask, value)
       IN pcf' = [pcf EXCEPT !.pending[c] = <<>>, !.state = new, !.wire = new,
                             !.ops = @ + 1, !.last = <<mask, value>>,
                             !.expect = [b \in Bits |->
                                            IF b \in mask THEN b \in value
                                            ELSE pcf.expect[b]]]
    /\ UNCHANGED <<busVars, gateVars, supVars, running, collVars, clientVars,
                   polVars, lockoutLeft, adc, aqm, drv, sup>>

\* Pcf8574.__init__: cached state 0xFF, nothing written yet.  ops counts the
\* calls that have run.
InitPcf ==
    pcf = [ops |-> 0, calls |-> 0, state |-> Bits, wire |-> Bits, last |-> <<>>,
           pending |-> [c \in PcfCallers |-> <<>>],
           expect |-> [b \in Bits |-> TRUE]]

----------------------------------------------------------------------------
(* Expander driver classes on an I2C bus whose transfers can fail *)

\* hardware.PCF8574 is src/hardware/pcf8574.py, v2.Pcf8574 the wrapper of the
\* v2 tree, hardware.PcfRelays the relay driver of the application and the
\* Mockup classes those of the Mockup tree.
PcfKinds    == {"hardware.PCF8574", "v2.Pcf8574"}
RelayKinds  == {"hardware.PcfRelays", "Mockup.PcfRelays"}
DriverKinds == PcfKinds \cup RelayKinds \cup {"Mockup.PcfLedPair"}

\* Bytes a caller passes to write_byte; the last one has a bit beyond the byte.
ByteArgs == {{}, {0}, {7}, Bits, {0, 8}}

\* Bits the relay callers address: the direction relays of the gates.
RelayBits == {OpenBit(g) : g \in Gates} \cup {CloseBit(g) : g \in Gates}

\* The other direction relay of the gate a relay bit belongs to.
Antagonist(bit) ==
    CHOOSE b \in RelayBits \ {bit} :
        \E g \in Gates : {bit, b} = {OpenBit(g), CloseBit(g)}

\* Whether an output is on (relay energized, LED lit) in a byte.
OnIn(activeLow, byte, bit) == IF activeLow THEN bit \notin byte ELSE bit \in byte

\* Mutant: only bit_a is switched off.
StopPairFirstBit(activeLow, base, bit_a, bit_b) == SetBit(activeLow, base, bit_a, FALSE)

\* PcfRelays.stop_pair: the byte written, from the byte read.
StopPairByte(activeLow, base, bit_a, bit_b) ==
    SetBit(activeLow, SetBit(activeLow, base, bit_a, FALSE), bit_b, FALSE)

\* PcfRelays.all_off: the byte written.  The class of the Mockup tree writes
\* 0xFF whatever its polarity.
AllOffByte(kind, activeLow) ==
    IF kind = "Mockup.PcfRelays" THEN Bits
    ELSE IF activeLow THEN Bits ELSE {}

\* Mutant: the pair is set in a byte of all ones instead of the byte read.
LedPairByteFresh(activeLow, base, g, red_on, green_on) ==
    SetBit(activeLow,
           SetBit(activeLow, Bits, GateConfig(g).led_green_bit, green_on),
           GateConfig(g).led_red_bit, red_on)

\* PcfLedPair._set: the byte written, from the byte read.
LedPairByte(activeLow, base, g, red_on, green_on) ==
    SetBit(activeLow,
           SetBit(activeLow, base, GateConfig(g).led_green_bit, green_on),
           GateConfig(g).led_red_bit, red_on)

\* red_on and green_on of set_red, set_green and set_off.
LedCalls == [set_red   |-> <<TRUE, FALSE>>,
             set_green |-> <<FALSE, TRUE>>,
             set_off   |-> <<FALSE, FALSE>>]

\* What a bus transfer can do: succeed, or raise in the read or in the write.
BusFaults == {"none", "read", "write"}

\* The driver after a call: the byte on the device, the cache, and a record
\* of the call (the device byte before it, whether it raised, the number of
\* bytes it wrote).  written is the last byte written successfully.
DrvCall(name, arg, raised, writes, dev2, cache2, cur2) ==
    /\ drv' = [drv EXCEPT !.dev = dev2, !.cache = cache2, !.cur = cur2,
                          !.op = [name |-> name, arg |-> arg, before |-> drv.dev,
                                  raised |-> raised, writes |-> writes],
                          !.written = IF writes > 0 THEN <<dev2>> ELSE drv.written]
    /\ UNCHANGED notDrv

\* PCF8574.write_byte stores the value and then writes it; Pcf8574.write_byte
\* writes it and then stores it.
DrvWriteByte ==
    /\ drv.kind \in PcfKinds
    /\ \E value \in ByteArgs, fault \in {"none", "write"} :
         LET v == value \cap Bits
         IN IF fault = "write"
            THEN DrvCall("write_byte", <<value>>, TRUE, 0, drv.dev,
                         IF drv.kind = "hardware.PCF8574" THEN v ELSE drv.cache,
                         drv.cur)
            ELSE DrvCall("write_byte", <<value>>, FALSE, 1, v, v, drv.cur)

\* PCF8574.read_byte returns the byte read; Pcf8574.read_byte also stores it.
DrvReadByte ==
    /\ drv.kind \in PcfKinds
    /\ \E fault \in {"none", "read"} :
         IF fault = "read"
         THEN DrvCall("read_byte", <<>>, TRUE, 0, drv.dev, drv.cache, drv.cur)
         ELSE DrvCall("read_byte", <<>>, FALSE, 0, drv.dev,
                      IF drv.kind = "v2.Pcf8574" THEN drv.dev ELSE drv.cache,
                      drv.cur)

\* Pcf8574.update_bits on a bus that can fail.
DrvUpdateBits ==
    /\ drv.kind = "v2.Pcf8574"
    /\ \E mask, value \in SUBSET ArgBits, fault \in {"none", "write"} :
         LET new == UpdateBitsByte(drv.cache, mask, value)
         IN IF fault = "write"
            THEN DrvCall("update_bits", <<mask, value>>, TRUE, 0, drv.dev,
                         drv.cache, drv.cur)
            ELSE DrvCall("update_bits", <<mask, value>>, FALSE, 1, new, new,
                         drv.cur)

\* A read-modify-write call of PcfRelays or PcfLedPair that computes byte v
\* from the byte read: _read_byte, _write_byte(v), self._cur = v.
DrvReadModifyWrite(name, arg, v, fault, cur2) ==
    IF fault = "none"
    THEN DrvCall(name, arg, FALSE, 1, v, v, cur2)
    ELSE DrvCall(name, arg, TRUE, 0, drv.dev, drv.cache, drv.cur)

RelSetRelay ==
    /\ drv.kind \in RelayKinds
    /\ \E bit \in RelayBits, on \in BOOLEAN, fault \in BusFaults :
         DrvReadModifyWrite("set_relay", <<bit, on>>,
                            SetBit(drv.active_low, drv.dev, bit, on), fault,
                            drv.cur)

RelStopPair ==
    /\ drv.kind \in RelayKinds
    /\ \E bit_a, bit_b \in RelayBits, fault \in BusFaults :
         DrvReadModifyWrite("stop_pair", <<bit_a, bit_b>>,
                            StopPairByte(drv.active_low, drv.dev, bit_a, bit_b),
                            fault, drv.cur)

\* all_off writes its byte without reading the device first.
RelAllOff ==
    /\ drv.kind \in RelayKinds
    /\ \E fault \in {"none", "write"} :
         DrvReadModifyWrite("all_off", <<>>,
                            AllOffByte(drv.kind, drv.active_low), fault, drv.cur)

\* set_red, set_green or set_off of the LED pair of gate g; each pair object
\* has its own _cur.
LedPairSet ==
    /\ drv.kind = "Mockup.PcfLedPair"
    /\ \E g \in Gates, call \in DOMAIN LedCalls, fault \in BusFaults :
         LET v == LedPairByte(drv.active_low, drv.dev, g,
                              LedCalls[call][1], LedCalls[call][2])
         IN DrvReadModifyWrite(call, <<g>>, v, fault,
                               [drv.cur EXCEPT ![g] = v])

\* A new driver object.  The PCF classes assume the power-up byte 0xFF; the
\* relay and LED classes read the byte the device holds.
InitDrv ==
    \E kind \in DriverKinds, active_low \in BOOLEAN, dev \in {Bits, {}} :
        /\ kind \in PcfKinds => (dev = Bits /\ active_low)
        /\ drv = [kind |-> kind, active_low |-> active_low, dev |-> dev,
                  cache |-> dev, cur |-> [g \in Gates |-> dev],
                  op |-> [name |-> "init", arg |-> <<>>, before |-> dev,
                          raised |-> FALSE, writes |-> 0],
                  written |-> <<>>]

----------------------------------------------------------------------------
(* AQM policy *)

PolicyQueueMaxsize == 200

\* aqm.good / aqm.bad events; the suffix stands for data["severe"] = True.
AqmEvents == {"aqm.bad", "aqm.bad.severe", "aqm.good", "aqm.good.severe"}

EvIsBad(ev)  == ev \in {"aqm.bad", "aqm.bad.severe"}
EvSevere(ev) == ev \in {"aqm.bad.severe", "aqm.good.severe"}

FanEnergized == GpioEnergized(polCfg.fan_active_high, fanPin)

\* First step: fan forced off, subscription, last_fan_off_at = now.
PolBoot ==
    /\ polPc = "init"
    /\ running = "none"
    /\ BootTurn("policy")
    /\ fanPin' = GpioLevel(polCfg.fan_active_high, FALSE)
    /\ Subscribe("policy", PolicyQueueMaxsize)
    /\ fan_is_on' = FALSE
    /\ lockoutLeft' = polCfg.min_off_lockout
    /\ severe_latched' = FALSE
    /\ pol_is_bad' = <<>>
    /\ fanWrites' = fanWrites + 1
    /\ polPc' = "wait"
    /\ UNCHANGED <<queue, pubCount, polCfg, funWrites, running, supVars, notPol>>

\* Mutant: the fan is switched on without looking at the lockout.
FanControlNoLockout(ev) ==
    IF ~polCfg.fan_on_when_bad
    THEN [fan |-> fan_is_on, restart |-> FALSE, skip |-> FALSE]
    ELSE [fan |-> EvIsBad(ev), restart |-> fan_is_on /\ ~EvIsBad(ev), skip |-> FALSE]

\* The fan part of one loop iteration for an aqm.good / aqm.bad event:
\* the new fan state, whether the lockout restarts, and whether the
\* iteration ends early (continue) before the severe part.
FanControl(ev) ==
    IF ~polCfg.fan_on_when_bad
    THEN [fan |-> fan_is_on, restart |-> FALSE, skip |-> FALSE]
    ELSE IF EvIsBad(ev)
    THEN IF fan_is_on
         THEN [fan |-> TRUE, restart |-> FALSE, skip |-> FALSE]
         ELSE IF polCfg.min_off_lockout > 0 /\ lockoutLeft > 0
         THEN [fan |-> FALSE, restart |-> FALSE, skip |-> TRUE]
         ELSE [fan |-> TRUE, restart |-> FALSE, skip |-> FALSE]
    ELSE IF fan_is_on
         THEN [fan |-> FALSE, restart |-> TRUE, skip |-> FALSE]
         ELSE [fan |-> FALSE, restart |-> FALSE, skip |-> FALSE]

\* One iteration of the loop; the loop suspends only in q.get().
PolGet ==
    /\ polPc = "wait"
    /\ ~cancelReq["policy"]
    /\ running \in {"none", "policy"}
    /\ queue["policy"] # <<>>
    /\ LET ev == Head(queue["policy"])
           q2 == Tail(queue["policy"])
           f  == FanControl(ev)
       IN /\ queue' = [queue EXCEPT !["policy"] = q2]
          /\ running' = KeepsRunning("policy", "wait", q2)
          /\ IF ev \notin AqmEvents
             THEN UNCHANGED <<fan_is_on, fanPin, lockoutLeft, severe_latched, pol_is_bad,
                              funWrites, fanWrites>>
             ELSE /\ pol_is_bad' = <<EvIsBad(ev)>>
                  /\ fan_is_on' = f.fan
                  /\ fanPin' = IF f.fan # fan_is_on
                               THEN GpioLevel(polCfg.fan_active_high, f.fan)
                               ELSE fanPin
                  /\ fanWrites' = IF f.fan # fan_is_on THEN fanWrites + 1
                                                        ELSE fanWrites
                  /\ lockoutLeft' = IF f.restart THEN polCfg.min_off_lockout
                                                 ELSE lockoutLeft
                  /\ IF f.skip \/ ~polCfg.pause_fun
                     THEN UNCHANGED <<severe_latched, funWrites>>
                     ELSE IF EvSevere(ev) /\ ~severe_latched
                     THEN severe_latched' = TRUE /\ funWrites' = funWrites + 1
                     ELSE IF ~EvSevere(ev) /\ severe_latched
                     THEN severe_latched' = FALSE /\ UNCHANGED funWrites
                     ELSE UNCHANGED <<severe_latched, funWrites>>
    /\ UNCHANGED <<subs, maxsize, pubCount, polPc, polCfg, supVars, notPol>>

\* CancelledError is delivered at q.get(): the coroutine has no handler and
\* no finally block, the task just ends.
PolCancelled ==
    /\ polPc = "wait"
    /\ cancelReq["policy"]
    /\ running = "none"
    /\ polPc' = "cancelled"
    /\ cancelReq' = [cancelReq EXCEPT !["policy"] = FALSE]
    /\ UNCHANGED <<busVars, polCfg, fan_is_on, fanPin, severe_latched, pol_is_bad, funWrites,
                   fanWrites,
                   lockoutLeft, running, aborting, notPol>>

\* The AQM reader publishes aqm.metrics, aqm.good or aqm.bad to the policy.
PolPublish ==
    /\ running = "none"
    /\ polPc = "wait"
    /\ pubCount < MaxPolPub
    /\ \E ev \in AqmEvents \cup {"aqm.metrics"} : Publish(ev)
    /\ UNCHANGED <<subs, maxsize, gateVars, collVars, clientVars, polVars,
                   lockoutLeft, running, supVars, sensVars>>

----------------------------------------------------------------------------
(* Supervisor: asyncio.TaskGroup *)

GateFinished(g) == ctrl[g] \in {"cancelled", "failed"}

\* The tasks of _run_app's TaskGroup that are modelled, and their state.
Finished(t) ==
    IF t \in Gates THEN GateFinished(t)
    ELSE IF t = "collector" THEN collPc = "cancelled"
    ELSE polPc = "cancelled"

Present(t) ==
    IF t \in Gates THEN ctrl[t] # "absent"
    ELSE IF t = "collector" THEN collPc # "absent"
    ELSE polPc # "absent"

\* TaskGroup._abort on a user interrupt or after a task has failed: every
\* task that has not finished is cancelled, the publishers among them.
AppAbort ==
    /\ ~aborting
    /\ running = "none"
    /\ \A t \in DOMAIN cancelReq : Booted(t)
    /\ aborting' = TRUE
    /\ cancelReq' = [t \in DOMAIN cancelReq |-> Present(t) /\ ~Finished(t)]
    /\ UNCHANGED <<busVars, gateVars, collVars, clientVars, sensVars, polVars, lockoutLeft,
                   running>>

\* The ADC watcher or the AQM reader publishes an event.
AppPublish ==
    /\ running = "none"
    /\ ~aborting
    /\ pubCount < MaxAppPub
    /\ \A t \in DOMAIN cancelReq : Booted(t)
    /\ \E ev \in ToolEvents \cup AqmEvents : Publish(ev)
    /\ UNCHANGED <<subs, maxsize, gateVars, collVars, clientVars, sensVars, polVars,
                   lockoutLeft, running, supVars>>

----------------------------------------------------------------------------
(* Supervisor life cycle: _run_app from boot to exit, and the FIFO ready    *)
(* queue of the event loop that runs the first step of every task          *)

SupKinds == {"src", "Mockup"}

\* The tasks _run_app creates, in creation order.
CreatedTasks(kind) ==
    IF kind = "src"
    THEN <<"event_logger", "aqm_reader", "aqm_policy", "aqm_announcer",
           "lathe_gate_ctrl", "saw_gate_ctrl", "adc_watch", "collector_ssr">>
    ELSE <<"event_logger", "lathe_gate_ctrl", "saw_gate_ctrl", "adc_watch">>

\* The tasks run_adc_watch creates in its own TaskGroup.
WatchTasks == <<"adc_watch_saw", "adc_watch_lathe">>

Range(seq) == {seq[i] : i \in 1..Len(seq)}

AllTasks == Range(CreatedTasks("src")) \cup Range(WatchTasks)

\* Tasks whose first step is bus.subscribe.
SubscriberTasks ==
    {"event_logger", "aqm_policy", "lathe_gate_ctrl", "saw_gate_ctrl", "collector_ssr"}

\* Tasks that call bus.publish, after a sleep or a read in a worker thread.
PublishingTasks == {"aqm_reader", "adc_watch_saw", "adc_watch_lathe"}

\* The publishers among the tasks _run_app creates.
PublisherTasks == {"aqm_reader", "adc_watch"}

\* Mutant: a new handle is put at the front of the ready queue.
EnqueueFirst(ready, t) == <<t>> \o ready

\* loop.call_soon: the handle is appended to the ready queue.
Enqueue(ready, t) == Append(ready, t)

\* task.cancel() on task t: a suspended task is woken with CancelledError, a
\* task that is ready gets it at its next step; a finished task is left alone.
CancelTask(s, t) ==
    IF s.st[t] = "done" THEN s
    ELSE [s EXCEPT !.cancelled = @ \cup {t},
                   !.ready = IF s.st[t] = "waiting" THEN Enqueue(@, t) ELSE @,
                   !.st[t] = "ready"]

RECURSIVE CancelAll(_, _)
CancelAll(s, order) ==
    IF order = <<>> THEN s
    ELSE CancelAll([CancelTask(s, Head(order)) EXCEPT
                        !.log = Append(@, [op |-> "cancel", task |-> Head(order)])],
                   Tail(order))

\* The orders in which the supervisor calls cancel(): the Mockup supervisor
\* walks its list of tasks; TaskGroup._abort walks a set, whose order is
\* unrelated to creation (of these orders, those that differ in the task
\* cancelled first).
CancelOrders(kind) ==
    LET ts == CreatedTasks(kind)
        Without(t) == SelectSeq(ts, LAMBDA u : u # t)
    IN IF kind = "Mockup" THEN {ts}
       ELSE {<<t>> \o Without(t) : t \in Range(ts)}

\* What the supervisor writes after its tasks have stopped.
FinalWrites(kind) ==
    IF kind = "Mockup"
    THEN <<[op |-> "relay_off", task |-> "main"], [op |-> "relay_close", task |-> "main"]>>
    ELSE <<>>

\* _leds_all_off_boot
SupLedsBoot ==
    /\ sup.pc = "boot"
    /\ sup' = [sup EXCEPT !.pc = "leds",
                          !.log = Append(@, [op |-> "led_safe", task |-> "main"])]
    /\ UNCHANGED notSup

\* async with relay_lock: relays.all_off()
SupRelaysBoot ==
    /\ sup.pc = "leds"
    /\ sup' = [sup EXCEPT !.pc = "relays",
                          !.log = Append(@, [op |-> "relay_off", task |-> "main"])]
    /\ UNCHANGED notSup

\* The create_task calls: every task is put on the ready queue.
SupCreateTasks ==
    /\ sup.pc = "relays"
    /\ LET ts == CreatedTasks(sup.kind)
       IN sup' = [sup EXCEPT !.pc = "serving",
                             !.ready = ts,
                             !.st = [t \in AllTasks |->
                                        IF t \in Range(ts) THEN "ready" ELSE "none"]]
    /\ UNCHANGED notSup

\* bus.publish by a publisher: the subscribers not registered yet miss it.
SupPublished(s) ==
    [s EXCEPT !.pubs = @ + 1,
              !.missed = @ \cup ((SubscriberTasks \cap Range(CreatedTasks(s.kind)))
                                    \ s.subscribed)]

\* The step of task t that receives CancelledError.
StepCancelled(s, t) ==
    LET kids == {c \in Range(WatchTasks) : s.st[c] \notin {"none", "done"}}
    IN IF t = "adc_watch" /\ kids # {}
       THEN \* the inner TaskGroup aborts its tasks and waits for them
            [CancelAll(s, SelectSeq(WatchTasks, LAMBDA c : c \in kids))
                EXCEPT !.st[t] = "joining"]
       ELSE LET s2 == [s EXCEPT !.st[t] = "done",
                                !.log = Append(@, [op |-> "stopped", task |-> t])]
            IN IF /\ t \in Range(WatchTasks)
                  /\ s.st["adc_watch"] = "joining"
                  /\ \A c \in Range(WatchTasks) \ {t} : s.st[c] \in {"none", "done"}
               THEN [s2 EXCEPT !.ready = Enqueue(@, "adc_watch"),
                               !.st["adc_watch"] = "ready"]
               ELSE s2

\* The first step of task t, up to its first suspension point.
StepFirst(s, t, publishes) ==
    LET s1 == [s EXCEPT !.started = @ \cup {t},
                        !.subscribed = IF t \in SubscriberTasks THEN @ \cup {t} ELSE @,
                        !.st[t] = "waiting"]
        s2 == IF t = "adc_watch"
              THEN [s1 EXCEPT !.ready = Enqueue(Enqueue(@, WatchTasks[1]), WatchTasks[2]),
                              !.st[WatchTasks[1]] = "ready",
                              !.st[WatchTasks[2]] = "ready"]
              ELSE s1
    IN IF publishes THEN SupPublished(s2) ELSE s2

\* A later step of a publishing task: its sleep or its read is over.
StepAgain(s, t, publishes) ==
    LET s1 == [s EXCEPT !.st[t] = "waiting"]
    IN IF publishes THEN SupPublished(s1) ELSE s1

\* The event loop runs the handle at the head of its ready queue.  A sample
\* of a watcher can publish (consecutive_required = 1 allows it at the first
\* sample); the reader publishes after a frame, never in its first step.
LoopRun ==
    /\ sup.kind \in SupKinds
    /\ sup.ready # <<>>
    /\ LET t == Head(sup.ready)
           s == [sup EXCEPT !.ready = Tail(@)]
       IN \E publishes \in BOOLEAN :
            /\ publishes =>
                  /\ t \in PublishingTasks
                  /\ t \notin sup.cancelled
                  /\ sup.pubs < MaxBootPub
                  /\ t = "aqm_reader" => t \in sup.started
            /\ sup' = IF t \in sup.cancelled THEN StepCancelled(s, t)
                      ELSE IF t \notin sup.started THEN StepFirst(s, t, publishes)
                      ELSE StepAgain(s, t, publishes)
    /\ UNCHANGED notSup

\* The sleep of a watcher ends, or the worker thread of the reader returns:
\* the task is put on the ready queue.
LoopWake ==
    /\ sup.kind \in SupKinds
    /\ sup.wakes < MaxWakes
    /\ \E t \in PublishingTasks :
          /\ sup.st[t] = "waiting"
          /\ sup' = [sup EXCEPT !.ready = Enqueue(@, t), !.st[t] = "ready",
                                !.wakes = @ + 1]
    /\ UNCHANGED notSup

\* Shutdown begins: TaskGroup._abort, or the finally block of the Mockup
\* supervisor, calls cancel() on the tasks.
SupShutdown ==
    /\ sup.pc = "serving"
    /\ \E order \in CancelOrders(sup.kind) :
          sup' = [CancelAll(sup, order) EXCEPT !.pc = "cancelling"]
    /\ UNCHANGED notSup

\* Every task has stopped: TaskGroup.__aexit__ or asyncio.gather returns.
SupJoin ==
    /\ sup.pc = "cancelling"
    /\ \A t \in AllTasks : sup.st[t] \in {"none", "done"}
    /\ sup' = [sup EXCEPT !.pc = "joined"]
    /\ UNCHANGED notSup

\* The rest of _run_app, then asyncio.run closes the loop.
SupFinal ==
    /\ sup.pc = "joined"
    /\ sup' = [sup EXCEPT !.pc = "exited", !.log = @ \o FinalWrites(sup.kind)]
    /\ UNCHANGED notSup

InitLife ==
    \E kind \in SupKinds :
        sup = [kind |-> kind, pc |-> "boot", ready |-> <<>>,
               st |-> [t \in AllTasks |-> "none"], started |-> {},
               cancelled |-> {}, subscribed |-> {}, missed |-> {},
               pubs |-> 0, wakes |-> 0, log |-> <<>>]

----------------------------------------------------------------------------
(* Specification of the two gate controllers on the shared relay bank *)

BusClients == {"sub1", "sub2"}
Publishers == {"adc.a0", "adc.a1"}

Subscribers == Gates \cup {"collector", "policy"} \cup BusClients
Tasks == Gates \cup {"collector", "policy"}

InitBus ==
    /\ subs = <<>>
    /\ queue = [s \in Subscribers |-> <<>>]
    /\ maxsize = [s \in Subscribers |-> 0]
    /\ pubCount = 0

\* State after _run_app has forced the LEDs off and called relays.all_off().
InitGates ==
    /\ relayByte = all_off
    /\ ledByte = {}
    /\ ctrl = [g \in Gates |-> "init"]
    /\ pendingDir = [g \in Gates |-> "none"]
    /\ motion = [g \in Gates |-> NoTask]
    /\ orphan = [g \in Gates |-> NoTask]
    /\ timer = [g \in Gates |-> 0]
    /\ pairOffTicks = [g \in Gates |-> 0]
    /\ lastExit = [g \in Gates |-> "none"]
    /\ faults = 0

InitClients ==
    /\ received = [s \in BusClients |-> <<>>]
    /\ nextSeq = [p \in Publishers |-> 1]

PolCfgs ==
    [fan_on_when_bad : BOOLEAN, pause_fun : BOOLEAN, fan_active_high : BOOLEAN,
     min_off_lockout : {0, LockoutTicks}]

PolAbsent ==
    /\ polPc = "absent"
    /\ polCfg = [fan_on_when_bad |-> FALSE, pause_fun |-> FALSE,
                 fan_active_high |-> TRUE, min_off_lockout |-> 0]
    /\ fan_is_on = FALSE
    /\ fanPin = "unset"
    /\ severe_latched = FALSE
    /\ pol_is_bad = <<>>
    /\ lockoutLeft = 0
    /\ funWrites = 0
    /\ fanWrites = 0

InitPol ==
    /\ polPc = "init"
    /\ polCfg \in PolCfgs
    /\ fan_is_on = FALSE
    /\ fanPin = "unset"
    /\ severe_latched = FALSE
    /\ pol_is_bad = <<>>
    /\ lockoutLeft = 0
    /\ funWrites = 0
    /\ fanWrites = 0

\* The sensor tasks and the expander of the v2 tree outside their own
\* specifications.
AdcAbsent == adc = [read |-> 0, feed |-> <<>>]
AqmAbsent == aqm = [pc |-> "absent"]
PcfAbsent == pcf = [ops |-> 0]
DrvAbsent == drv = [kind |-> "absent"]
SupAbsent == sup = [kind |-> "absent"]

InitSup ==
    /\ running = "none"
    /\ aborting = FALSE
    /\ cancelReq = [t \in Tasks |-> FALSE]

\* The collector SSR controller before its first step; the configuration
\* chooses the polarity of the SSR pin.
InitColl ==
    /\ collPc = "init"
    /\ active = {}
    /\ ssr_on = FALSE
    /\ seenOn = {}
    /\ ssrActiveHigh \in BOOLEAN
    /\ outputs_enabled = TRUE
    /\ ssrPin = "unset"
    /\ stripPin = "unset"

\* The collector controller with hardware.outputs_enabled false.
InitCollInhibited ==
    /\ collPc = "init"
    /\ active = {}
    /\ ssr_on = FALSE
    /\ seenOn = {}
    /\ ssrActiveHigh = TRUE
    /\ outputs_enabled = FALSE
    /\ ssrPin = "unset"
    /\ stripPin = "unset"

\* A task of the application that does not run in a specification.
CollAbsent ==
    /\ collPc = "absent"
    /\ active = {}
    /\ ssr_on = FALSE
    /\ seenOn = {}
    /\ ssrActiveHigh = TRUE
    /\ outputs_enabled = TRUE
    /\ ssrPin = "unset"
    /\ stripPin = "unset"

GatesAbsent ==
    /\ relayByte = all_off
    /\ ledByte = {}
    /\ ctrl = [g \in Gates |-> "absent"]
    /\ pendingDir = [g \in Gates |-> "none"]
    /\ motion = [g \in Gates |-> NoTask]
    /\ orphan = [g \in Gates |-> NoTask]
    /\ timer = [g \in Gates |-> 0]
    /\ pairOffTicks = [g \in Gates |-> 0]
    /\ lastExit = [g \in Gates |-> "none"]
    /\ faults = 0

InitGate ==
    /\ InitBus /\ InitGates /\ InitSup /\ CollAbsent /\ InitClients /\ PolAbsent
    /\ AdcAbsent /\ AqmAbsent /\ PcfAbsent /\ DrvAbsent /\ SupAbsent

NextGate ==
    \/ \E g \in Gates : CtrlBoot(g)
    \/ \E g \in Gates : CtrlGet(g)
    \/ \E g \in Gates : CtrlResume(g)
    \/ \E g \in Gates : MotionStart(g)
    \/ \E g \in Gates : MotionEnergize(g)
    \/ \E g \in Gates : MotionExpire(g)
    \/ \E g \in Gates : MotionCancelled(g)
    \/ Tick
    \/ PublishTool

SpecGate == InitGate /\ [][NextGate]_vars

----------------------------------------------------------------------------
(* Specification of the collector SSR controller, outputs enabled *)

InitCollector ==
    /\ InitBus /\ GatesAbsent /\ InitSup /\ InitColl /\ InitClients /\ PolAbsent
    /\ AdcAbsent /\ AqmAbsent /\ PcfAbsent /\ DrvAbsent /\ SupAbsent

NextCollector ==
    \/ CollBoot
    \/ CollGet
    \/ CollYield
    \/ CollCancelled
    \/ CollPublish
    \/ AppAbort

SpecCollector == InitCollector /\ [][NextCollector]_vars

----------------------------------------------------------------------------
(* Specification of the event bus with clients of small queue sizes *)

\* subscribe(maxsize) by a client that has not subscribed yet.
BusSubscribe(s) ==
    /\ s \notin Subscribed
    /\ \E size \in 0..MaxCap : Subscribe(s, size)
    /\ UNCHANGED <<queue, pubCount, gateVars, collVars, clientVars, running,
                   supVars, polVars, lockoutLeft, sensVars>>

\* publish(event) by a publisher; seq stands for the event's timestamp.
BusPublish(p) ==
    /\ pubCount < MaxBusPub
    /\ Publish([src |-> p, seq |-> nextSeq[p]])
    /\ nextSeq' = [nextSeq EXCEPT ![p] = nextSeq[p] + 1]
    /\ UNCHANGED <<subs, maxsize, received, gateVars, collVars, running, supVars,
                   polVars, lockoutLeft, sensVars>>

\* q.get() by a subscribed client.
BusGet(s) ==
    /\ s \in Subscribed
    /\ queue[s] # <<>>
    /\ received' = [received EXCEPT ![s] = Append(received[s], Head(queue[s]))]
    /\ queue' = [queue EXCEPT ![s] = Tail(queue[s])]
    /\ UNCHANGED <<subs, maxsize, pubCount, nextSeq, gateVars, collVars, running,
                   supVars, polVars, lockoutLeft, sensVars>>

InitBare ==
    /\ InitBus /\ GatesAbsent /\ CollAbsent /\ InitSup /\ InitClients /\ PolAbsent
    /\ AdcAbsent /\ AqmAbsent /\ PcfAbsent /\ DrvAbsent /\ SupAbsent

NextBus ==
    \/ \E s \in BusClients : BusSubscribe(s)
    \/ \E p \in Publishers : BusPublish(p)
    \/ \E s \in BusClients : BusGet(s)

SpecBus == InitBare /\ [][NextBus]_vars

----------------------------------------------------------------------------
(* Specification of the application: the task group of _run_app *)

\* The configuration that enables every output the application can drive:
\* active-high SSR pins, fan control and FUN PAUSE on, no off-lockout.
AppPolCfg ==
    [fan_on_when_bad |-> TRUE, pause_fun |-> TRUE, fan_active_high |-> TRUE,
     min_off_lockout |-> 0]

Init ==
    /\ InitBus /\ InitGates /\ InitSup /\ InitColl /\ InitClients /\ InitPol
    /\ ssrActiveHigh = TRUE
    /\ polCfg = AppPolCfg
    /\ AdcAbsent /\ AqmAbsent /\ PcfAbsent /\ DrvAbsent /\ SupAbsent

Next ==
    \/ \E g \in Gates : CtrlBoot(g)
    \/ \E g \in Gates : CtrlGet(g)
    \/ \E g \in Gates : CtrlResume(g)
    \/ \E g \in Gates : MotionStart(g)
    \/ \E g \in Gates : MotionEnergize(g)
    \/ \E g \in Gates : MotionExpire(g)
    \/ \E g \in Gates : MotionCancelled(g)
    \/ \E g \in Gates : CtrlCancelled(g)
    \/ \E g \in Gates : CtrlCleanupResume(g)
    \/ CollBoot
    \/ CollGet
    \/ CollYield
    \/ CollCancelled
    \/ PolBoot
    \/ PolGet
    \/ PolCancelled
    \/ Tick
    \/ AppPublish
    \/ AppAbort

Spec == Init /\ [][Next]_vars

----------------------------------------------------------------------------
(* Specification of one ADC channel *)

InitAdcSpec ==
    /\ InitBus /\ GatesAbsent /\ CollAbsent /\ InitSup /\ InitClients /\ PolAbsent
    /\ InitAdc /\ AqmAbsent /\ PcfAbsent /\ DrvAbsent /\ SupAbsent

SpecAdc == InitAdcSpec /\ [][AdcSample]_vars

----------------------------------------------------------------------------
(* Specification of the AQM reader, with the event logger as subscriber *)

InitAqmSpec ==
    /\ subs = <<"sub1">>
    /\ queue = [s \in Subscribers |-> <<>>]
    /\ maxsize = [s \in Subscribers |-> 0]
    /\ pubCount = 0
    /\ GatesAbsent /\ CollAbsent /\ InitSup /\ InitClients /\ PolAbsent
    /\ AdcAbsent /\ InitAqm /\ PcfAbsent /\ DrvAbsent /\ SupAbsent

NextAqm == AqmArrive \/ AqmRead

SpecAqm == InitAqmSpec /\ [][NextAqm]_vars

----------------------------------------------------------------------------
(* Specification of the AQM reader on a clean line, filter windows differing *)

InitAqmFilterSpec ==
    /\ subs = <<"sub1">>
    /\ queue = [s \in Subscribers |-> <<>>]
    /\ maxsize = [s \in Subscribers |-> 0]
    /\ pubCount = 0
    /\ GatesAbsent /\ CollAbsent /\ InitSup /\ InitClients /\ PolAbsent
    /\ AdcAbsent /\ InitAqmFilter /\ PcfAbsent /\ DrvAbsent /\ SupAbsent

NextAqmFilter == AqmFrame \/ AqmRead

SpecAqmFilter == InitAqmFilterSpec /\ [][NextAqmFilter]_vars

----------------------------------------------------------------------------
(* Specification of the supervisor from boot to exit *)

InitLifeSpec ==
    /\ InitBus /\ GatesAbsent /\ CollAbsent /\ InitSup /\ InitClients /\ PolAbsent
    /\ AdcAbsent /\ AqmAbsent /\ PcfAbsent /\ DrvAbsent /\ InitLife

NextLife ==
    \/ SupLedsBoot
    \/ SupRelaysBoot
    \/ SupCreateTasks
    \/ LoopRun
    \/ LoopWake
    \/ SupShutdown
    \/ SupJoin
    \/ SupFinal

SpecLife == InitLifeSpec /\ [][NextLife]_vars

----------------------------------------------------------------------------
(* Specification of the two channel tasks of run_adc_watch *)

InitAdcPairSpec ==
    /\ InitBus /\ GatesAbsent /\ CollAbsent /\ InitSup /\ InitClients /\ PolAbsent
    /\ InitAdcPair /\ AqmAbsent /\ PcfAbsent /\ DrvAbsent /\ SupAbsent

NextAdcPair ==
    \/ \E t \in Gates : PairSample(t)
    \/ \E t \in Gates : PairCancelled(t)

SpecAdcPair == InitAdcPairSpec /\ [][NextAdcPair]_vars

----------------------------------------------------------------------------
(* Specification of the AQM policy alone, for every configuration *)

InitPolicySpec ==
    /\ InitBus /\ GatesAbsent /\ CollAbsent /\ InitSup /\ InitClients /\ InitPol
    /\ AdcAbsent /\ AqmAbsent /\ PcfAbsent /\ DrvAbsent /\ SupAbsent

NextPolicy == PolBoot \/ PolGet \/ PolPublish \/ Tick

SpecPolicy == InitPolicySpec /\ [][NextPolicy]_vars

----------------------------------------------------------------------------
(* Specification of the AQM reader feeding the AQM policy, unfiltered        *)
(* samples (windows of one) and every pair of bad and severe thresholds;     *)
(* the event loop runs a task that stays ready                               *)

InitAir ==
    /\ InitBus /\ GatesAbsent /\ CollAbsent /\ InitSup /\ InitClients /\ InitPol
    /\ polCfg = AppPolCfg
    /\ AdcAbsent /\ InitAqm /\ PcfAbsent /\ DrvAbsent /\ SupAbsent
    /\ aqm.win_good = 1 /\ aqm.win_bad = 1
    /\ aqm.bad_off_cfg = 0 /\ ~aqm.use_cf1

NextAir == AqmArrive \/ AqmRead \/ PolBoot \/ PolGet

FairSpecAir ==
    /\ InitAir /\ [][NextAir]_vars
    /\ WF_vars(AqmRead) /\ WF_vars(PolBoot) /\ WF_vars(PolGet)

----------------------------------------------------------------------------
(* Specification of one Pcf8574 instance with concurrent callers *)

InitPcfSpec ==
    /\ InitBus /\ GatesAbsent /\ CollAbsent /\ InitSup /\ InitClients /\ PolAbsent
    /\ AdcAbsent /\ AqmAbsent /\ InitPcf /\ DrvAbsent /\ SupAbsent

NextPcf == \E c \in PcfCallers : PcfCall(c) \/ PcfUpdate(c)

SpecPcf == InitPcfSpec /\ [][NextPcf]_vars

----------------------------------------------------------------------------
(* Specification of one expander driver object of any of the driver classes *)

InitDrivers ==
    /\ InitBus /\ GatesAbsent /\ CollAbsent /\ InitSup /\ InitClients /\ PolAbsent
    /\ AdcAbsent /\ AqmAbsent /\ PcfAbsent /\ InitDrv /\ SupAbsent

NextDrivers ==
    \/ DrvWriteByte
    \/ DrvReadByte
    \/ DrvUpdateBits
    \/ RelSetRelay
    \/ RelStopPair
    \/ RelAllOff
    \/ LedPairSet

SpecDrivers == InitDrivers /\ [][NextDrivers]_vars

----------------------------------------------------------------------------
(* Specification of the application with hardware.outputs_enabled false *)

InitInhibited ==
    /\ InitBus /\ InitGates /\ InitSup /\ InitCollInhibited /\ InitClients /\ InitPol
    /\ polCfg = AppPolCfg
    /\ AdcAbsent /\ AqmAbsent /\ PcfAbsent /\ DrvAbsent /\ SupAbsent

NextInhibited ==
    \/ \E g \in Gates : CtrlBoot(g)
    \/ \E g \in Gates : CtrlGet(g)
    \/ \E g \in Gates : CtrlResume(g)
    \/ \E g \in Gates : MotionStart(g)
    \/ \E g \in Gates : MotionEnergize(g)
    \/ \E g \in Gates : MotionExpire(g)
    \/ \E g \in Gates : MotionCancelled(g)
    \/ CollBootInhibited
    \/ CollGetInhibited
    \/ CollYield
    \/ PolBoot
    \/ PolGet
    \/ Tick
    \/ AppPublish

SpecInhibited == InitInhibited /\ [][NextInhibited]_vars

----------------------------------------------------------------------------
(* Specification of run_adc_watch from its start *)

InitAdcStartSpec ==
    /\ InitBus /\ GatesAbsent /\ CollAbsent /\ InitSup /\ InitClients /\ PolAbsent
    /\ InitAdcStart /\ AqmAbsent /\ PcfAbsent /\ DrvAbsent /\ SupAbsent

NextAdcStart == AdcStart \/ AdcSample

SpecAdcStart == InitAdcStartSpec /\ [][NextAdcStart]_vars

\* Steps of the event loop: it runs every task that is ready, and time advances.
SchedGate ==
    \/ Tick
    \/ \E g \in Gates : \/ CtrlBoot(g) \/ CtrlGet(g) \/ CtrlResume(g)
                        \/ MotionStart(g) \/ MotionEnergize(g)
                        \/ MotionExpire(g) \/ MotionCancelled(g)

FairSpecGate == SpecGate /\ WF_vars(SchedGate)

----------------------------------------------------------------------------
(* Claims about the gate controllers *)

MotionIdle(g) == ~Alive(motion[g]) /\ ~Alive(orphan[g])

AnyEnergized(g) == Energized(OpenBit(g)) \/ Energized(CloseBit(g))

\* C1: for every gate, under every sequence and timing of its on/off events,
\* the open relay and the close relay are never energized at the same time.
C1_NeverBothEnergized ==
    \A g \in Gates : ~(Energized(OpenBit(g)) /\ Energized(CloseBit(g)))

\* A command arrived during the deadtime of a motion and the following motion
\* drives its relay.
C1_Witness ==
    \E g \in Gates : /\ lastExit[g] = "cancel_deadtime"
                     /\ motion[g].st = "drive"
                     /\ Energized(TargetBit(g, motion[g].dir))

C3_DeadtimeBeforeEnergize ==
    [][\A g \in Gates : \A b \in {OpenBit(g), CloseBit(g)} :
          (b \notin relayByte /\ b \in relayByte')
              => pairOffTicks[g] >= DeadtimeTicks]_vars

\* After an opening cancelled in flight, the closing motion drives its relay.
C3_Witness ==
    \E g \in Gates : /\ lastExit[g] = "cancel_drive"
                     /\ motion[g].st = "drive"
                     /\ motion[g].dir = "close"
                     /\ Energized(CloseBit(g))
                     /\ LedLit(GateConfig(g).led_red_bit)

\* C4: the motion task of a new command performs its first relay write only
\* after the cancelled task of the previous command has finished its finally
\* block.
C4_OldTaskFinishedFirst ==
    \A g \in Gates :
        /\ Alive(orphan[g]) => motion[g].st \in {"none", "created"}
        /\ ctrl[g] = "cancelwait" => Alive(motion[g]) \/ motion[g].st = "done"

\* A command cancelled a motion in flight and the new motion task has done its
\* first relay write.
C4_Witness ==
    \E g \in Gates : /\ lastExit[g] \in {"cancel_deadtime", "cancel_drive"}
                     /\ motion[g].st = "deadtime"
                     /\ ctrl[g] = "wait"

\* C5: an energized direction relay is de-energized again: once max_drive has
\* elapsed the motion task stops the pair.
C5_EnergizedLeadsToOff ==
    \A g \in Gates : AnyEnergized(g) ~> PairOff(relayByte, g)

\* A motion ran for max_drive and stopped the pair.
C5_Witness ==
    \E g \in Gates : /\ lastExit[g] = "normal"
                     /\ motion[g].st = "done"
                     /\ PairOff(relayByte, g)

----------------------------------------------------------------------------
(* Claims about the collector SSR controller *)

CollRunning == collPc \in {"wait", "yield"}

\* C6: while the collector controller runs, after every processed event the
\* SSR and the strip light are on exactly when the set of active tools is not
\* empty, and that set holds the tools whose latest event was an on event.
C6_SsrIffActive ==
    CollRunning =>
        /\ active = seenOn
        /\ SsrEnergized <=> active # {}
        /\ StripEnergized <=> active # {}
        /\ ssr_on <=> active # {}

\* Three events have left the saw alone active, as when lathe and saw overlap
\* and the lathe stops; the outputs are on and the last off event is pending.
C6_Witness ==
    /\ CollRunning
    /\ pubCount = 4
    /\ active = {"saw"}
    /\ queue["collector"] = <<"saw.off">>
    /\ SsrEnergized /\ StripEnergized

\* C7: once the collector controller has stopped on a cancellation, the SSR
\* and the strip light are off.
C7_StoppedImpliesOff ==
    collPc = "cancelled" => ~SsrEnergized /\ ~StripEnergized

\* The controller was cancelled while a tool was active and the outputs on.
C7_Witness ==
    /\ collPc = "cancelled"
    /\ active # {}
    /\ ssr_on
    /\ ~SsrEnergized /\ ~StripEnergized

----------------------------------------------------------------------------
(* Claims about the event bus *)

SeqRange(q) == {q[i] : i \in 1..Len(q)}

BusEvents == [src : Publishers, seq : 1..(MaxBusPub + 1)]

\* C9: publish never waits.  It can be called whatever the queues hold, and
\* one call gives the event to every subscriber whose queue has room and
\* drops it only for the subscribers whose queue is full.
C9_PublishNeverBlocks ==
    /\ [](pubCount < MaxBusPub => \A p \in Publishers : ENABLED BusPublish(p))
    /\ [][pubCount' # pubCount =>
            \E ev \in BusEvents : \A s \in Subscribed :
                queue'[s] = IF maxsize[s] > 0 /\ Len(queue[s]) >= maxsize[s]
                            THEN queue[s]
                            ELSE queue[s] \o <<ev>>]_vars

\* The subscriber registered second holds an event that was dropped for the
\* first one, whose queue was full.
C9_Witness ==
    /\ Len(subs) = 2
    /\ \E e \in SeqRange(queue[subs[2]]) :
          /\ e \notin SeqRange(queue[subs[1]]) \cup SeqRange(received[subs[1]])
          /\ \A d \in SeqRange(queue[subs[1]]) : d.src # e.src \/ d.seq < e.seq

\* C10: every subscriber takes the events of one publisher in the order in
\* which that publisher published them, whatever was dropped in between.
C10_PublisherOrder ==
    \A s \in BusClients : \A i, j \in 1..Len(received[s]) :
        (i < j /\ received[s][i].src = received[s][j].src)
            => received[s][i].seq < received[s][j].seq

\* A subscriber has taken two events of one publisher although an event of
\* that publisher published between them was dropped for it.
C10_Witness ==
    \E s \in BusClients : \E i, j \in 1..Len(received[s]) :
        /\ i < j
        /\ received[s][i].src = received[s][j].src
        /\ received[s][j].seq > received[s][i].seq + 1

----------------------------------------------------------------------------
(* Claims about the supervisor *)

TeardownComplete == \A t \in Tasks : Finished(t)

GateLedBits ==
    UNION {{GateConfig(g).led_red_bit, GateConfig(g).led_green_bit} : g \in Gates}

\* C8: once every task of the task group has stopped, every actuator output
\* is safe: gate LEDs off, gate relays de-energized, collector SSR, strip
\* light and filter fan off.
C8_SafeAfterTeardown ==
    TeardownComplete =>
        /\ \A b \in GateLedBits : ~LedLit(b)
        /\ \A g \in Gates : PairOff(relayByte, g)
        /\ ~SsrEnergized /\ ~StripEnergized
        /\ ~FanEnergized

----------------------------------------------------------------------------
(* Claims about the ADC watcher *)

\* The step reads one sample; LastSample is that sample in the next state.
AdcReads == adc'.read = adc.read + 1

\* C11 (as stated): with off_threshold < on_threshold, a sample within the
\* closed interval [off_threshold, on_threshold] never changes is_on and
\* never publishes an event.
C11_ClosedBandNoChange ==
    [][(/\ AdcReads
        /\ adc.off_threshold < adc.on_threshold
        /\ adc.off_threshold <= adc.feed[adc.read + 1]
        /\ adc.feed[adc.read + 1] <= adc.on_threshold)
       => (adc'.is_on = adc.is_on /\ adc'.published = adc.published)]_vars

\* C11 (amended): with off_threshold < on_threshold, a sample strictly
\* between the thresholds never changes is_on and never publishes an event;
\* a sample equal to a threshold counts towards that threshold.
C11_OpenBandNoChange ==
    [][(/\ AdcReads
        /\ adc.off_threshold < adc.feed[adc.read + 1]
        /\ adc.feed[adc.read + 1] < adc.on_threshold)
       => (adc'.is_on = adc.is_on /\ adc'.published = adc.published)]_vars

\* A sample strictly inside the band was read when one more sample above
\* on_threshold would have committed ON, and the channel stayed OFF.
C11_Witness ==
    /\ adc.read >= 2
    /\ adc.consecutive_required = 2
    /\ adc.feed[adc.read - 1] >= adc.on_threshold
    /\ adc.feed[adc.read] > adc.off_threshold
    /\ adc.feed[adc.read] < adc.on_threshold
    /\ \A i \in 1..(adc.read - 2) : adc.feed[i] < adc.on_threshold
    /\ ~adc.is_on /\ adc.above_on = 0 /\ adc.published = <<>>

\* The committed edges before sample p, and the state they imply.
EdgesBefore(p) == {i \in 1..Len(adc.published) : adc.published[i].at < p}

LastEdgeBefore(p) ==
    IF EdgesBefore(p) = {} THEN 0
    ELSE adc.published[CHOOSE i \in EdgesBefore(p) :
                          \A j \in EdgesBefore(p) : j <= i].at

OnBefore(p) == Cardinality(EdgesBefore(p)) % 2 = 1

\* The last n samples up to p were all read after the last edge and all
\* satisfy the test for the edge opposite to the state before p.
RunComplete(p) ==
    LET n == adc.consecutive_required
    IN /\ p - LastEdgeBefore(p) >= n
       /\ \A k \in (p - n + 1)..p :
             IF OnBefore(p) THEN adc.feed[k] <= adc.off_threshold
                            ELSE adc.feed[k] >= adc.on_threshold

\* C12: an edge is published at sample p exactly when the consecutive_required
\* samples ending at p, all read since the previous edge, are >= on_threshold
\* while OFF (event <tool>.on) or <= off_threshold while ON (event <tool>.off);
\* right after an edge both counters are zero.
C12_EdgeExactlyOnFullRun ==
    /\ \A p \in 1..adc.read :
          /\ Cardinality({i \in 1..Len(adc.published) : adc.published[i].at = p})
                = (IF RunComplete(p) THEN 1 ELSE 0)
          /\ \A i \in 1..Len(adc.published) :
                adc.published[i].at = p =>
                    adc.published[i].type
                        = adc.tool \o (IF OnBefore(p) THEN ".off" ELSE ".on")
    /\ \A i \in 1..Len(adc.published) : adc.published[i].at \in 1..adc.read
    /\ (adc.read > 0 /\ LastEdgeBefore(adc.read + 1) = adc.read)
          => (adc.above_on = 0 /\ adc.below_off = 0)

\* The example stream has been read: one saw.on at the sixth sample (index 5)
\* and one saw.off at the twelfth (index 11).
C12_Witness ==
    /\ adc.feed = ExampleChannel.feed
    /\ adc.read = 12
    /\ adc.published = <<[type |-> "saw.on", at |-> 6], [type |-> "saw.off", at |-> 12]>>

\* C13: the events published for a tool alternate, starting with <tool>.on.
C13_EventsAlternate ==
    \A i \in 1..Len(adc.published) :
        adc.published[i].type = adc.tool \o (IF i % 2 = 1 THEN ".on" ELSE ".off")

C13_Witness ==
    /\ Len(adc.published) >= 3
    /\ adc.published[3].type = adc.tool \o ".on"

----------------------------------------------------------------------------
(* Claims about the AQM reader *)

\* A 32-byte frame with the start bytes and a matching checksum.
ValidFrame(f) ==
    /\ Len(f) = 32
    /\ f[1] = 66 /\ f[2] = 77
    /\ f[31] * 256 + f[32] = Sum(SubSeq(f, 1, 30)) % 65536

\* What the event logger has been sent in this step.
NewEvents == SubSeq(queue'["sub1"], Len(queue["sub1"]) + 1, Len(queue'["sub1"]))

\* C14: the reader changes its filter window, is_bad or what is published
\* only in a step that takes a valid frame (start bytes 0x42 0x4D, checksum
\* over bytes 0..29 in bytes 30..31) from the bytes read, and then the window
\* receives the pm2.5 field of that frame; bytes that hold no valid frame,
\* a frame with a wrong checksum included, are consumed without any effect.
C14_OnlyValidFrames ==
    [][(\/ aqm'.pm25_hist # aqm.pm25_hist
        \/ aqm'.is_bad # aqm.is_bad
        \/ aqm'.last_pm25 # aqm.last_pm25
        \/ NewEvents # <<>>)
       => \E i \in 1..Len(aqm.serial) :
             LET f == SubSeq(aqm.serial, i, i + 31)
             IN /\ i + 31 <= Len(aqm.serial)
                /\ ValidFrame(f)
                /\ aqm'.frame = f
                /\ aqm'.serial = SubSeq(aqm.serial, i + 32, Len(aqm.serial))
                /\ aqm'.pm25_hist[Len(aqm'.pm25_hist)]
                      = (IF aqm.use_cf1 THEN f[7] * 256 + f[8]
                                        ELSE f[13] * 256 + f[14])
                /\ Head(NewEvents) = "aqm.metrics"]_vars

\* A damaged frame and then a good one have arrived and been read: only
\* the good one has been taken.
C14_Witness ==
    /\ aqm.pc = "read"
    /\ aqm.arrived = <<SensorFrame(MaxPm, FALSE), SensorFrame(1, TRUE)>>
    /\ aqm.serial = <<>>
    /\ aqm.pm25_hist = <<1>>
    /\ queue["sub1"][1] = "aqm.metrics"

\* C15: is_bad becomes true only on a frame whose filtered pm2.5 is at least
\* bad_on_threshold and false only on one whose filtered pm2.5 is at most the
\* effective bad_off_threshold, which is below bad_on_threshold and is the
\* configured value unless that is not below bad_on_threshold.
C15_Hysteresis ==
    [][aqm.pc = "read" =>
        /\ aqm.bad_off_th < aqm.bad_on_th
        /\ aqm.bad_off_th = (IF aqm.bad_off_cfg >= aqm.bad_on_th
                             THEN aqm.bad_on_th - 1 ELSE aqm.bad_off_cfg)
        /\ (~aqm.is_bad /\ aqm'.is_bad) => aqm'.last_pm25[1] >= aqm.bad_on_th
        /\ (aqm.is_bad /\ ~aqm'.is_bad) => aqm'.last_pm25[1] <= aqm.bad_off_th]_vars

\* The air went bad and good again under a clamped bad_off_threshold.
C15_Witness ==
    /\ aqm.pc = "read"
    /\ aqm.bad_off_cfg >= aqm.bad_on_th
    /\ Len(queue["sub1"]) = 4
    /\ queue["sub1"][2] \in {"aqm.bad", "aqm.bad.severe"}
    /\ queue["sub1"][4] \in {"aqm.good", "aqm.good.severe"}

\* The step is an iteration of the reader that got a frame.
FrameTaken == aqm'.arrived = aqm.arrived /\ aqm' # aqm /\ aqm'.frame # <<>>

\* The events of a frame: aqm.metrics, then those in evs.
FrameEvents(evs) == NewEvents = <<"aqm.metrics">> \o evs

\* C16 (as stated): every valid frame yields exactly one aqm.metrics, and an
\* aqm.bad / aqm.good event exactly when is_bad changes on that frame.
C16_AnnouncedOnlyOnChange ==
    [][FrameTaken =>
        IF aqm'.is_bad # aqm.is_bad
        THEN \E ev \in AqmEvents : FrameEvents(<<ev>>) /\ EvIsBad(ev) = aqm'.is_bad
        ELSE FrameEvents(<<>>)]_vars

\* C16 (amended): every valid frame yields exactly one aqm.metrics; the first
\* valid frame also yields aqm.good or aqm.bad for the state it finds, and a
\* later frame yields aqm.bad / aqm.good exactly when is_bad changes on it.
C16_AnnouncedOnChangeOrFirst ==
    [][FrameTaken =>
        IF aqm'.is_bad # aqm.is_bad \/ aqm.last_pm25 = <<>>
        THEN \E ev \in AqmEvents : FrameEvents(<<ev>>) /\ EvIsBad(ev) = aqm'.is_bad
        ELSE FrameEvents(<<>>)]_vars

\* Two frames have been processed and the second, which left is_bad as it
\* was, published aqm.metrics alone.
C16_Witness ==
    /\ aqm.pc = "read"
    /\ Len(aqm.pm25_hist) = 2
    /\ Len(queue["sub1"]) = 3
    /\ queue["sub1"][3] = "aqm.metrics"

----------------------------------------------------------------------------
(* AQM policy: FUN PAUSE and the fan lockout *)

\* The policy, configured to pause the fun, takes an aqm.good / aqm.bad
\* event from its queue in this step.
PolHandles ==
    /\ polPc = "wait"
    /\ polCfg.pause_fun
    /\ queue["policy"] # <<>>
    /\ Head(queue["policy"]) \in AqmEvents
    /\ queue'["policy"] = Tail(queue["policy"])

\* C17: with pause_fun enabled and a transmitter, every aqm.good / aqm.bad
\* event the policy handles is treated by the latch alone: severe with the
\* latch clear writes one FUN PAUSE and sets the latch, nothing is written
\* while the latch is set, and an event that is not severe clears the latch.
C17_OnePausePerSevereEntry ==
    [][PolHandles =>
         LET ev == Head(queue["policy"])
         IN /\ (EvSevere(ev) /\ ~severe_latched)
                  => (funWrites' = funWrites + 1 /\ severe_latched')
            /\ severe_latched => funWrites' = funWrites
            /\ ~EvSevere(ev) => (~severe_latched' /\ funWrites' = funWrites)]_vars

\* C19: with a lockout configured, a step that turns the fan on happens only
\* when the whole lockout has elapsed since the fan was last turned off
\* (lockoutLeft is set to the lockout at every fan-off and counts down with
\* time).
C19_NoFanOnInLockout ==
    [][(polCfg.min_off_lockout > 0 /\ ~fan_is_on /\ fan_is_on')
          => lockoutLeft = 0]_vars

\* The fan was switched off at startup, on, off for good air and, the
\* lockout elapsed, on again.
C19_Witness ==
    /\ polCfg.min_off_lockout > 0
    /\ fan_is_on
    /\ fanWrites = 4
    /\ lockoutLeft = 0

\* The filtered pm2.5 of the latest frame is at or above severe_threshold.
SevereNow == aqm.last_pm25 # <<>> /\ aqm.last_pm25[1] >= aqm.sev_th

\* C18: with pause_fun enabled, once the filtered pm2.5 is in the severe
\* range and no FUN PAUSE has been written for it (latch clear), a FUN PAUSE
\* is eventually written (the latch is set by the write), whether or not
\* is_bad changed on the frame.
C18_SevereLeadsToPause == (SevereNow /\ ~severe_latched) ~> severe_latched

----------------------------------------------------------------------------
(* PCF8574 update_bits *)

\* C20: after any interleaving of concurrent update_bits calls the cached
\* state is the initial byte with every bit replaced by the value of the
\* latest call whose mask included it, and the byte written by the latest
\* call is exactly (state & ~mask) | (value & mask), the new cached state.
C20_LastWriterPerBit ==
    /\ pcf.state = {b \in Bits : pcf.expect[b]}
    /\ pcf.ops > 0 => pcf.wire = pcf.state

\* Three calls have run.  An earlier one cleared bit 7; the latest had mask
\* {0, 8} and value {0, 7, 8}: bit 7 of its value lies outside the mask and
\* bit 7 stays cleared, bit 8 is cut off.
C20_Witness ==
    /\ pcf.ops = 3
    /\ pcf.state = Bits \ {7}
    /\ pcf.last # <<>>
    /\ pcf.last[1] = {0, 8}
    /\ pcf.last[2] = {0, 7, 8}

----------------------------------------------------------------------------
(* Expander drivers *)

\* C21: the cached state of an expander driver equals the last byte written
\* successfully to the device, also after calls that raised.
C21_CacheIsLastWritten ==
    (drv.kind \in PcfKinds \cup RelayKinds /\ drv.written # <<>>)
        => drv.cache = drv.written[1]

\* The latest call of the driver was name and did not raise.
Returned(name) == drv.op.name = name /\ ~drv.op.raised

\* C22: stop_pair(a, b) writes one byte in which relays a and b are both
\* de-energized and every other bit is as it was read, and a second
\* stop_pair(a, b) leaves the relay byte unchanged.
C22_StopPairAtomicIdempotent ==
    /\ [](drv.kind \in RelayKinds /\ Returned("stop_pair") =>
            LET a == drv.op.arg[1]
                b == drv.op.arg[2]
            IN /\ drv.op.writes = 1
               /\ ~OnIn(drv.active_low, drv.dev, a)
               /\ ~OnIn(drv.active_low, drv.dev, b)
               /\ \A bit \in Bits \ {a, b} : bit \in drv.dev <=> bit \in drv.op.before)
    /\ [][(/\ drv.kind \in RelayKinds
           /\ Returned("stop_pair")
           /\ drv'.op.name = "stop_pair" /\ ~drv'.op.raised
           /\ drv'.op.arg = drv.op.arg) => drv'.dev = drv.dev]_vars

\* stop_pair of the saw pair returned: the open relay was energized before,
\* a relay of the lathe pair is energized before and after.
C22_Witness ==
    /\ drv.kind = "hardware.PcfRelays"
    /\ Returned("stop_pair")
    /\ drv.op.arg = <<OpenBit("saw"), CloseBit("saw")>>
    /\ OnIn(drv.active_low, drv.op.before, OpenBit("saw"))
    /\ OnIn(drv.active_low, drv.op.before, OpenBit("lathe"))
    /\ OnIn(drv.active_low, drv.dev, OpenBit("lathe"))

\* C23: for either polarity, after all_off has returned no relay is
\* energized.
C23_AllOffDeenergizes ==
    (drv.kind \in RelayKinds /\ Returned("all_off"))
        => \A bit \in Bits : ~OnIn(drv.active_low, drv.dev, bit)

\* C26: set_relay(bit, on=True) for a de-energized direction relay, called
\* while the other direction relay of the same gate is energized, raises and
\* leaves the relay byte as it was.
C26_AntagonistRefused ==
    (/\ drv.kind \in RelayKinds
     /\ drv.op.name = "set_relay"
     /\ drv.op.arg[2]
     /\ ~OnIn(drv.active_low, drv.op.before, drv.op.arg[1])
     /\ OnIn(drv.active_low, drv.op.before, Antagonist(drv.op.arg[1])))
        => (drv.op.raised /\ drv.dev = drv.op.before)

\* C29: set_red, set_green and set_off of an LED pair write one byte in
\* which the red and the green LED of the pair are as the call says and
\* every other bit, the other pair's included, is as it was, in any order
\* of calls on the two pairs.
C29_LedPairFrame ==
    (/\ drv.kind = "Mockup.PcfLedPair"
     /\ drv.op.name \in DOMAIN LedCalls
     /\ ~drv.op.raised) =>
        LET cfg == GateConfig(drv.op.arg[1])
        IN /\ drv.op.writes = 1
           /\ OnIn(drv.active_low, drv.dev, cfg.led_red_bit)
                 <=> LedCalls[drv.op.name][1]
           /\ OnIn(drv.active_low, drv.dev, cfg.led_green_bit)
                 <=> LedCalls[drv.op.name][2]
           /\ \A bit \in Bits \ {cfg.led_red_bit, cfg.led_green_bit} :
                 bit \in drv.dev <=> bit \in drv.op.before

\* The saw pair was set to green while the lathe pair shows red: the saw
\* pair was red before, the lathe pair is untouched.
C29_Witness ==
    /\ drv.kind = "Mockup.PcfLedPair"
    /\ Returned("set_green")
    /\ drv.op.arg = <<"saw">>
    /\ OnIn(drv.active_low, drv.op.before, SAW_LED_RED_BIT)
    /\ OnIn(drv.active_low, drv.dev, LATHE_LED_RED_BIT)
    /\ ~OnIn(drv.active_low, drv.dev, LATHE_LED_GREEN_BIT)
    /\ drv.cur["lathe"] # drv.dev

----------------------------------------------------------------------------
(* Master inhibit *)

\* C24: with hardware.outputs_enabled false no output is ever energized: no
\* gate relay, not the collector SSR, not the strip light, not the filter fan.
C24_InhibitedNeverEnergizes ==
    ~outputs_enabled =>
        /\ \A g \in Gates : ~Energized(OpenBit(g)) /\ ~Energized(CloseBit(g))
        /\ ~SsrEnergized
        /\ ~StripEnergized
        /\ ~FanEnergized

----------------------------------------------------------------------------
(* Gate controller: repeated commands, failures, LEDs *)

\* C25: while a repeated command (the same direction as the motion task it
\* replaces) is being started, the relay of that direction, if energized,
\* stays energized: it is not switched off and on again.
C25_RepeatedCommandKeepsRelay ==
    [][\A g \in Gates :
         (/\ ctrl[g] = "cancelwait"
          /\ pendingDir[g] = motion[g].dir
          /\ TargetBit(g, pendingDir[g]) \in relayByte)
             => TargetBit(g, pendingDir[g]) \in relayByte']_vars

\* C27: once a motion task has ended with an I2C error, the gate controller
\* task eventually fails with it.
C27_FaultLeadsToFailure ==
    \A g \in Gates :
        (motion[g].st = "done" /\ motion[g].exc) ~> (ctrl[g] = "failed")

\* The LED pair of gate g shows the colour of direction dir in byte.
Shows(byte, g, dir) ==
    /\ (GateConfig(g).led_green_bit \in byte) <=> (dir = "open")
    /\ (GateConfig(g).led_red_bit \in byte) <=> (dir = "close")

\* The controller of gate g takes a <tool>.on or <tool>.off event in this step.
Processes(g) ==
    /\ ctrl[g] = "wait"
    /\ queue[g] # <<>>
    /\ Head(queue[g]) \in {GateConfig(g).event_on, GateConfig(g).event_off}
    /\ queue'[g] = Tail(queue[g])

\* C30: the first step of a controller leaves its pair RED and both its
\* relays de-energized; a step that processes <tool>.on / <tool>.off leaves
\* the pair GREEN / RED; no other step changes the pair; and a relay is
\* energized only while the pair shows the colour of its direction.
C30_LedFollowsCommand ==
    [][\A g \in Gates :
         /\ (ctrl[g] = "init" /\ ctrl'[g] # "init")
               => (Shows(ledByte', g, "close") /\ PairOff(relayByte', g))
         /\ Processes(g)
               => Shows(ledByte', g,
                        IF Head(queue[g]) = GateConfig(g).event_on
                        THEN "open" ELSE "close")
         /\ (~Processes(g) /\ ctrl[g] # "init")
               => \A bit \in {GateConfig(g).led_green_bit, GateConfig(g).led_red_bit} :
                     bit \in ledByte' <=> bit \in ledByte
         /\ \A dir \in {"open", "close"} :
               (TargetBit(g, dir) \notin relayByte /\ TargetBit(g, dir) \in relayByte')
                  => Shows(ledByte, g, dir)]_vars

\* The saw gate is driven open under a GREEN pair while the lathe pair, set
\* at boot, is RED.
C30_Witness ==
    /\ Energized(OpenBit("saw"))
    /\ Shows(ledByte, "saw", "open")
    /\ Shows(ledByte, "lathe", "close")
    /\ motion["saw"].st = "drive"

----------------------------------------------------------------------------
(* ADC watcher start *)

\* C28: run_adc_watch, once started, has rejected every configuration whose
\* off_threshold is not strictly below its on_threshold, as it has rejected
\* sample_hz <= 0 and consecutive_required < 1, and then nothing is published.
C28_BadThresholdsRejected ==
    (/\ adc.pc # "start"
     /\ \/ adc.cfg.off_threshold >= adc.cfg.on_threshold
        \/ adc.cfg.sample_hz <= 0
        \/ adc.cfg.consecutive_required < 1)
        => (adc.pc = "rejected" /\ adc.published = <<>>)

----------------------------------------------------------------------------
(* Shared relay bank: the two controllers interleaved *)

PairBits(g) == {OpenBit(g), CloseBit(g)}

\* C31: every relay write is a read-modify-write made inside one hold of the
\* shared relay lock (no suspension point lies between the read and the write,
\* so it is one step of the event loop); under every interleaving of the saw
\* and lathe controllers a step that changes the relay byte changes the bits
\* of one gate only and leaves every other bit as it was.
C31_OtherGateBitsKept ==
    [][relayByte' # relayByte =>
          \E g \in Gates :
              /\ relayByte' \ PairBits(g) = relayByte \ PairBits(g)
              /\ \A h \in Gates \ {g} :
                    relayByte' \cap PairBits(h) = relayByte \cap PairBits(h)]_vars

\* Both gates are being driven at once: the second relay was energized by a
\* write made while the other gate's relay was energized.
C31_Witness == \A g \in Gates : ~PairOff(relayByte, g)

----------------------------------------------------------------------------
(* PMS framing scan *)

\* The step is one call of _find_frame_blocking.
ScanStep == aqm.pc = "read" /\ aqm'.arrived = aqm.arrived /\ aqm' # aqm

\* The unread bytes start with the header and the 32-byte candidate it
\* opens fails the checksum.
CandidateFails(buf) ==
    /\ Len(buf) >= 32
    /\ buf[1] = 66 /\ buf[2] = 77
    /\ ~ValidFrame(SubSeq(buf, 1, 32))

\* C35: when the header matches and the 32-byte candidate fails the
\* checksum, the candidate is not returned and the scan goes on at the byte
\* that follows the candidate: the call returns what a scan of the bytes
\* after the candidate returns, in particular a valid frame that follows
\* the candidate directly.
C35_BadCandidateDiscarded ==
    [][ScanStep /\ CandidateFails(aqm.serial) =>
        LET rest == SubSeq(aqm.serial, 33, Len(aqm.serial))
        IN /\ aqm'.frame # SubSeq(aqm.serial, 1, 32)
           /\ aqm'.frame = FindFrame(rest).frame
           /\ aqm'.serial = FindFrame(rest).rest
           /\ rest = <<>> => aqm'.frame = <<>>
           /\ (Len(rest) >= 32 /\ ValidFrame(SubSeq(rest, 1, 32))) =>
                 /\ aqm'.frame = SubSeq(rest, 1, 32)
                 /\ aqm'.serial = SubSeq(rest, 33, Len(rest))]_vars

\* A damaged frame was scanned and dropped, and the frame behind it is the
\* one the reader holds.
C35_Witness ==
    /\ aqm.pc = "read"
    /\ aqm.arrived = <<SensorFrame(MaxPm, FALSE), SensorFrame(0, TRUE)>>
    /\ aqm.serial = <<>>
    /\ aqm.frame = SensorFrame(0, TRUE)

\* The bytes hold a valid frame somewhere.
HoldsValidFrame(buf) ==
    \E i \in 1..Len(buf) : i + 31 <= Len(buf) /\ ValidFrame(SubSeq(buf, i, i + 31))

\* C40: a call of _find_frame_blocking returns a checksum-valid frame whenever
\* the bytes the line delivers before the read times out hold one, whatever
\* bytes precede the header of that frame.
C40_ValidFrameFound ==
    [][ScanStep /\ HoldsValidFrame(aqm.serial) => ValidFrame(aqm'.frame)]_vars

----------------------------------------------------------------------------
(* AQM reader: the filter window after a transition *)

\* The number of frames the event logger has seen since the last aqm.good /
\* aqm.bad event.
RECURSIVE MetricsSince(_)
MetricsSince(q) ==
    IF q = <<>> \/ q[Len(q)] # "aqm.metrics" THEN 0
    ELSE 1 + MetricsSince(SubSeq(q, 1, Len(q) - 1))

\* C38: once aqm.bad has been published, a frame whose raw pm2.5 is at least
\* bad_on_threshold, as that of every frame since the aqm.bad, leaves is_bad
\* true (and so publishes no aqm.good), also when the frame is the first one
\* averaged over win_bad.
C38_StaysBadOnBadSamples ==
    [][(FrameTaken /\ aqm.is_bad) =>
        LET n   == MetricsSince(queue["sub1"])
            h   == aqm.pm25_hist
            raw == ParsePm25(aqm'.frame, aqm.use_cf1)
        IN (/\ raw >= aqm.bad_on_th
            /\ n <= Len(h)
            /\ \A i \in (Len(h) - n + 1)..Len(h) : h[i] >= aqm.bad_on_th)
           => /\ aqm'.is_bad
              /\ \A k \in 1..Len(NewEvents) :
                    NewEvents[k] \notin {"aqm.good", "aqm.good.severe"}]_vars

----------------------------------------------------------------------------
(* AQM policy: the fan during a bad-air episode *)

\* The policy has handled every event sent to it and waits in q.get().
PolIdle == polPc = "wait" /\ queue["policy"] = <<>>

\* C39: with fan_on_when_bad set, when the last aqm.good / aqm.bad event the
\* policy has handled is aqm.bad and no lockout window is running, the fan
\* is on.
C39_FanOnWhileBad ==
    (polCfg.fan_on_when_bad /\ PolIdle /\ pol_is_bad = <<TRUE>> /\ lockoutLeft = 0)
        => (fan_is_on /\ FanEnergized)

----------------------------------------------------------------------------
(* Serial ports *)

\* The serial port object _run_app hands to each task: aqm_reader gets
\* hw_uart, whose ser is aqm_ser, and run_aqm_policy gets ser_tx = aqm_ser.
SerialOf == [aqm_reader |-> "aqm_ser", aqm_policy |-> "aqm_ser"]

\* The worker thread of asyncio.to_thread is inside _find_frame_blocking: the
\* last scan returned a frame, so the reader published and went straight
\* into its next scan.
ScanInProgress == aqm.pc = "read" /\ aqm.frame # <<>>

----------------------------------------------------------------------------
(* Gate controller: cancellation of the controller task *)

\* C37: a cancellation requested of a gate controller is never swallowed:
\* the step in which the CancelledError is delivered to the controller,
\* wherever it is suspended (in q.get() or in _cancel_motion awaiting its
\* motion task), takes the controller into its cleanup, after which it has
\* terminated.
C37_CancelNotSwallowed ==
    [][\A g \in Gates :
          (cancelReq[g] /\ ~cancelReq'[g]) =>
              ctrl'[g] \in {"cleanupwait", "cancelled"}]_vars

----------------------------------------------------------------------------
(* Supervisor: startup and shutdown order *)

\* The position of the first entry of the log with operation op (0: none).
FirstOp(op) ==
    IF \E i \in 1..Len(sup.log) : sup.log[i].op = op
    THEN CHOOSE i \in 1..Len(sup.log) :
            /\ sup.log[i].op = op
            /\ \A j \in 1..(i - 1) : sup.log[j].op # op
    ELSE 0

\* C32: at startup the LED safe-state write and then the relay all-off write
\* are made before any task runs, and while the application is running no
\* event has been published before every subscriber task (event logger, AQM
\* policy, both gate controllers, collector SSR controller) had registered
\* its queue on the bus.
C32_StartupOrder ==
    /\ sup.started # {} => (FirstOp("led_safe") = 1 /\ FirstOp("relay_off") = 2)
    /\ sup.pc = "serving" =>
          /\ sup.missed = {}
          /\ sup.pubs > 0 =>
                (SubscriberTasks \cap Range(CreatedTasks(sup.kind))) \subseteq sup.subscribed

\* A watcher has published at its first sample, the earliest point at which
\* an event can appear, and every subscriber of the application had
\* registered.
C32_Witness ==
    /\ sup.kind = "src" /\ sup.pc = "serving"
    /\ sup.wakes = 0 /\ sup.pubs > 0
    /\ sup.subscribed = SubscriberTasks
    /\ sup.missed = {}

\* C33: when the supervisor has exited, its cancel() calls were made on the
\* publishers before any other task, and after the last task had stopped it
\* wrote the safe state to the relay bank and to the LED expander.
C33_ShutdownOrder ==
    sup.pc = "exited" =>
        LET n       == Len(sup.log)
            Stopped == {i \in 1..n : sup.log[i].op = "stopped"}
        IN /\ \A i, j \in 1..n :
                 (/\ i < j
                  /\ sup.log[i].op = "cancel" /\ sup.log[j].op = "cancel"
                  /\ sup.log[j].task \in PublisherTasks)
                 => sup.log[i].task \in PublisherTasks
           /\ \E i \in 1..n : /\ sup.log[i].op = "relay_off"
                              /\ \A k \in Stopped : k < i
           /\ \E i \in 1..n : /\ sup.log[i].op = "led_safe"
                              /\ \A k \in Stopped : k < i

----------------------------------------------------------------------------
(* ADC watcher: the two channels *)

\* Channel t has samples left to take and its own reads have all returned.
ChannelHealthy(t) ==
    /\ adc.ch[t].read < Len(adc.ch[t].feed)
    /\ adc.ch[t].st # "failed"
    /\ adc.blocked # t

\* C34: a channel whose own reads return keeps sampling whatever the reads
\* of the other channel do: it is neither stopped nor held up by a read of
\* the other channel that has failed or does not return.
C34_ChannelsIndependent ==
    \A t \in Gates :
        ChannelHealthy(t) => (adc.ch[t].st = "running" /\ adc.blocked = "none")

====
